---- MODULE Spec2Model ----
(***************************************************************************)
(* A model of fhir-package-loader's resolution / cache / download engine   *)
(* (src/src/app.ts: loadDependencies, loadDependency, mergeDependency,     *)
(* getDistUrl, loadFromPath, lookUpLatestVersion, lookUpLatestPatchVersion *)
(* and the PackageCache class).                                            *)
(*                                                                         *)
(* Strings (package names, versions, URLs, cache keys) are sequences of    *)
(* tokens: a token is one character that the code inspects ("/", ".", "#", *)
(* "$", "x", a digit) or a word the code only ever handles whole.          *)
(*                                                                         *)
(* Node runs the code on one thread: an action is everything a handler     *)
(* does between two awaits, and the only awaits are network requests.      *)
(***************************************************************************)
EXTENDS Integers, Sequences, FiniteSets, Bags, TLC

VARIABLES
    env,        \* process.env.FPL_REGISTRY: a string, Null when unset
    disk,       \* the cache directory: a set of [dir, gen, date] entries
    pcache,     \* PackageCache.cache: a set of LoadedPackage records
    lastUpdate, \* PackageCache.lastCurrentUpdate (NoDate: never set)
    now,        \* the wall clock, in ms
    heap,       \* the FHIRDefinitions objects, by identity (index)
    tasks,      \* the running calls of mergeDependency / lookUp*
    call,       \* the top-level API call in progress and its outcome
    errlog,     \* the error-level messages handed to log, in order
    settled,    \* the order in which the tasks of the call settled
    listed,     \* the times at which qas.json was requested, in order
    temps,      \* the kinds of temporary resources of downloads that still exist
    packageDirectory,   \* the directory cleanCachedPackage is applied to
    renamed,    \* per cleanCachedPackage call, the entries it renamed
    defsTree,   \* the tree of stores fishForFHIR is applied to (its root is 1)
    fished,     \* per fishForFHIR call, its arguments and what it returned
    counted,    \* per call of an aggregate accessor, its arguments and its report
    otherRoot,  \* a second cache directory, as disk is the first: its entries
    loads,      \* per call of loadFromPath by a caller, its arguments and its result
    pool,       \* the requests the callers of this process draw from
    width,      \* the most requests the callers put in one batch
    budget      \* the top-level calls the callers still make

\* the state of the loader, and the state of the functions called on their own
loader == <<env, disk, pcache, lastUpdate, now, heap, tasks, call, errlog, settled,
            listed, temps, pool, width, budget>>

aside == <<packageDirectory, renamed, defsTree, fished, counted, otherRoot, loads>>

vars == <<loader, aside>>

\* ------------------------------------------------------------------ bounds

MaxReq == 2      \* requests in one loadDependencies batch
MaxCalls == 3    \* top-level calls made one after the other (SpecSeq)
MaxCached == 1   \* package directories in the cache when the process starts
MaxTicks == 3    \* half days that pass while the process runs (SpecClock)
MaxCleans == 3   \* cleanCachedPackage calls on one directory (SpecClean)
MaxFished == 1   \* fishForFHIR calls on one tree of stores (SpecFish)
MaxCounted == 1  \* calls of the aggregate accessors on one tree (SpecAll)
MaxLoads == 3    \* loadFromPath calls of a caller in one process (SpecRoots)

\* ----------------------------------------------------------------- strings

Null == <<"<null>">>          \* null / undefined
Undefined == <<"undefined">>  \* what a template literal prints for undefined

Digits == {"0", "1", "2", "3", "4", "5", "6", "7", "8", "9"}

AllDigits(s, from, to) == \A i \in from..to : s[i] \in Digits

\* /^\d+\.\d+\.x$/.test(version)
IsPatchWildcard(v) ==
    \E i \in 1..Len(v), j \in 1..Len(v) :
        /\ AllDigits(v, 1, i)
        /\ i + 1 < j
        /\ v[i + 1] = "."
        /\ AllDigits(v, i + 2, j)
        /\ Len(v) = j + 2
        /\ v[j + 1] = "."
        /\ v[j + 2] = "x"

\* a variant of the minor-wildcard test that knows 0.x only
IsZeroMinorWildcard(v) == v = <<"0", ".", "x">>

\* /^\d+\.x$/.test(version)
IsMinorWildcard(v) ==
    \E i \in 1..Len(v) :
        /\ AllDigits(v, 1, i)
        /\ Len(v) = i + 2
        /\ v[i + 1] = "."
        /\ v[i + 2] = "x"

\* /^current(\$.+)?$/.test(version)
IsCurrentVersion(v) ==
    \/ v = <<"current">>
    \/ Len(v) >= 3 /\ v[1] = "current" /\ v[2] = "$"

StartsWith(s, p) == Len(s) >= Len(p) /\ SubSeq(s, 1, Len(p)) = p

EndsWith(s, p) == Len(s) >= Len(p) /\ SubSeq(s, Len(s) - Len(p) + 1, Len(s)) = p

\* s.indexOf(c), 1-based; 0 when absent
IndexOf(s, c) ==
    IF \E i \in 1..Len(s) : s[i] = c
    THEN CHOOSE i \in 1..Len(s) : s[i] = c /\ \A j \in 1..(i - 1) : s[j] # c
    ELSE 0

\* s.split(c)
RECURSIVE Split(_, _)
Split(s, c) ==
    LET i == IndexOf(s, c)
    IN IF i = 0 THEN <<s>>
       ELSE <<SubSeq(s, 1, i - 1)>> \o Split(SubSeq(s, i + 1, Len(s)), c)

\* registry.replace(/\/$/, '')
CleanRegistry(r) ==
    IF Len(r) > 0 /\ r[Len(r)] = "/" THEN SubSeq(r, 1, Len(r) - 1) ELSE r

\* `${packageName}#${version}`
Key(name, version) == name \o <<"#">> \o version

PrimaryHost == "https://packages.fhir.org"
SecondaryHost == "https://packages2.fhir.org/packages"
BuildHost == "https://build.fhir.org"

PrimaryUrl(name, version) == <<PrimaryHost, "/">> \o name \o <<"/">> \o version
\* a variant of the packages2 URL that repeats the primary registry
SecondaryIsPrimary(name, version) == <<PrimaryHost, "/">> \o name \o <<"/">> \o version
SecondaryUrl(name, version) == <<SecondaryHost, "/">> \o name \o <<"/">> \o version
PrimaryMetaUrl(name) == <<PrimaryHost, "/">> \o name
SecondaryMetaUrl(name) == <<SecondaryHost, "/">> \o name
CustomMetaUrl(reg, name) == CleanRegistry(reg) \o <<"/">> \o name
CustomFallbackUrl(reg, name, version) ==
    CleanRegistry(reg) \o <<"/">> \o name \o <<"/">> \o version
R5CurrentUrl(name) == <<BuildHost, "/">> \o name \o <<".tgz">>
QasUrl == <<BuildHost, "/", "ig", "/", "qas.json">>


\* ---------------------------------------------------------------- universe

PkgA == <<"pkg">>
PkgCaps == <<"PKG">>   \* the same name in upper case
R5Core == <<"hl7", ".", "fhir", ".", "r5", ".", "core">>
\* a variant of the prefix that singles out the R4 packages instead
R4Prefix == <<"hl7", ".", "fhir", ".", "r4", ".">>
R5Prefix == <<"hl7", ".", "fhir", ".", "r5", ".">>

V100 == <<"1", ".", "0", ".", "0">>
V101 == <<"1", ".", "0", ".", "1">>
V102t == <<"1", ".", "0", ".", "2", "-", "t">>
V101b == <<"1", ".", "0", ".", "1", "+", "b">>
V110 == <<"1", ".", "1", ".", "0">>
VPatch == <<"1", ".", "0", ".", "x">>
VMinor == <<"1", ".", "x">>
VLatest == <<"latest">>
VCurrent == <<"current">>
VBranch == <<"current", "$", "b">>
VDev == <<"dev">>

CustomHost == "https://custom-registry.example.org"

\* the values of FPL_REGISTRY: unset, a registry, the same with a trailing
\* slash, and an NPM-shaped registry that is packages.fhir.org itself
Registries == {Null, <<CustomHost>>, <<CustomHost, "/">>, <<PrimaryHost>>}

Request(name, version) == name \o <<"#">> \o version

AllRequests ==
    {Request(PkgA, v) : v \in {V100, VPatch, VMinor, VLatest, VCurrent, VBranch, VDev}}
        \cup {Request(R5Core, VCurrent)}


\* ------------------------------------------------------------ PackageCache

NoDate == 0 - 1   \* lastCurrentUpdate before the first markCurrentPackageRefreshed
DayMs == 86400000
HalfDay == DayMs \div 2   \* a step of the clock

\* a variant of the throttle that lets the listing be asked for again after
\* half a day
IsRefreshNeededAfterHalfDay(last, clock) ==
    last = NoDate \/ clock - last >= HalfDay

\* a variant of the throttle that never holds a request back
IsRefreshAlwaysNeeded(last, clock) == TRUE

\* PackageCache.isCurrentPackageRefreshNeeded()
IsCurrentPackageRefreshNeeded(last, clock) ==
    last = NoDate \/ last - clock > DayMs

\* PackageCache.contains(pkg), .get(pkg), .put(pkg, loadedPackage)
PcContains(pc, pkg) == \E e \in pc : e.key = pkg
PcGet(pc, pkg) == (CHOOSE e \in pc : e.key = pkg).val
PcPut(pc, pkg, lp) == {e \in pc : e.key # pkg} \cup {[key |-> pkg, val |-> lp]}

\* ------------------------------------------------------------- file system

OldGen == <<"old">>   \* the content (and package.json date) of a package cached at start
NewGen == <<"new">>   \* the content (and date) of what the servers hand out now

\* String.prototype.toLowerCase, on the tokens that have upper-case letters
LowerToken(tok) == IF tok = "PKG" THEN "pkg" ELSE tok
ToLowerCase(s) == [i \in 1..Len(s) |-> LowerToken(s[i])]

\* fs.existsSync(path.join(cachePath, dir))
DirExists(d, dir) == \E e \in d : e.dir = dir
DirEntry(d, dir) == CHOOSE e \in d : e.dir = dir

\* fs.removeSync(targetDirectory); fs.moveSync(tempDirectory, targetDirectory)
RemoveDir(d, dir) == {e \in d : e.dir # dir}
MoveInto(d, dir) == d \cup {[dir |-> dir, gen |-> NewGen, date |-> NewGen]}

\* an extracted archive: the names at its top level and, when one of them is
\* the "package" folder, the names inside that folder
NoDirectory == [top |-> {}, inner |-> {}]

\* cleanCachedPackage(packageDirectory): [dir: the directory after it,
\* renames: the entries fs.renameSync was called for]
CleanCreatesPackage(d) ==
    IF "package" \in d.top
    THEN [dir |-> d, renames |-> {}]
    ELSE [dir |-> [top |-> {"package"}, inner |-> d.top], renames |-> d.top]

CleanNestsPackageToo(d) ==
    IF "package" \in d.top
    THEN [dir |-> [top |-> {"package"}, inner |-> d.inner \cup d.top],
          renames |-> d.top]
    ELSE [dir |-> d, renames |-> {}]

CleanCachedPackage(d) ==
    IF "package" \in d.top
    THEN LET files == {file \in d.top : file # "package"}
         IN [dir |-> [top |-> {"package"}, inner |-> d.inner \cup files],
             renames |-> files]
    ELSE [dir |-> d, renames |-> {}]

\* ---------------------------------------------------------- FHIRDefinitions

\* new LoadedPackage() is never returned empty: null / undefined stands for none
NoPackage == [package |-> Null, gen |-> Null]

\* new FHIRDefinitions()
EmptyStore == [package |-> <<>>, own |-> <<>>, unsuccessful |-> FALSE, children |-> <<>>]

\* merge(pkg, defs): every definition of pkg is added to defs, its package.json
\* is recorded and defs takes the package's label
Merge(pkg, defs) ==
    [defs EXCEPT !.own = Append(@, [package |-> pkg.package, gen |-> pkg.gen]),
                 !.package = pkg.package]

\* the order in which fishForFHIR goes through the categories when it is given
\* none
FishingOrder ==
    <<"Resource", "Logical", "Type", "Profile", "Extension", "ValueSet", "CodeSystem",
      "Instance">>

\* what fishForFHIR returns when it finds nothing
NoDefinition ==
    [id |-> <<>>, name |-> <<>>, url |-> <<>>, version |-> <<>>, type |-> "undefined"]

\* a variant of the split that is made at the last separator
SplitItemAtLast(item) ==
    LET at == {i \in 1..Len(item) : item[i] = "|"}
        i == IF at = {} THEN 0 ELSE CHOOSE n \in at : \A m \in at : m <= n
    IN IF i = 0 THEN [key |-> item, version |-> <<>>]
       ELSE [key |-> SubSeq(item, 1, i - 1), version |-> SubSeq(item, i + 1, Len(item))]

\* item.split('|'): the key, and the version asked for (none: the empty string)
SplitItem(item) ==
    LET i == IndexOf(item, "|")
    IN IF i = 0 THEN [key |-> item, version |-> <<>>]
       ELSE [key |-> SubSeq(item, 1, i - 1), version |-> SubSeq(item, i + 1, Len(item))]

\* a variant of the look-up in one category that takes any version
HitsOfAnyVersion(own, key, version, type) ==
    LET ofType == {d \in own : d.type = type}
        byId == {d \in ofType : d.id = key}
        byName == {d \in ofType : d.name = key}
        byUrl == {d \in ofType : d.url = key}
    IN IF byId # {} THEN byId ELSE IF byName # {} THEN byName ELSE byUrl

\* the definitions of category `type` among `own` that `key` names, by id first,
\* then by name, then by url, and that have the version asked for
HitsOf(own, key, version, type) ==
    LET ofType == {d \in own : d.type = type /\ (version = <<>> \/ d.version = version)}
        byId == {d \in ofType : d.id = key}
        byName == {d \in ofType : d.name = key}
        byUrl == {d \in ofType : d.url = key}
    IN IF byId # {} THEN byId ELSE IF byName # {} THEN byName ELSE byUrl

\* a variant of the search in one store that looks in every category, requested
\* or not
FishInStoreForAnyType(own, key, version, types) ==
    LET at == {i \in 1..Len(FishingOrder) : HitsOf(own, key, version, FishingOrder[i]) # {}}
    IN IF at = {} THEN NoDefinition
       ELSE LET first == CHOOSE i \in at : \A j \in at : i <= j
            IN CHOOSE d \in HitsOf(own, key, version, FishingOrder[first]) : TRUE

\* a variant of the search in one store that prefers the last requested category
FishInStoreLastTypeFirst(own, key, version, types) ==
    LET at == {i \in 1..Len(types) : HitsOf(own, key, version, types[i]) # {}}
    IN IF at = {} THEN NoDefinition
       ELSE LET last == CHOOSE i \in at : \A j \in at : i >= j
            IN CHOOSE d \in HitsOf(own, key, version, types[last]) : TRUE

\* the search in one store: the hit of the first requested category that has one
FishInStore(own, key, version, types) ==
    LET at == {i \in 1..Len(types) : HitsOf(own, key, version, types[i]) # {}}
    IN IF at = {} THEN NoDefinition
       ELSE LET first == CHOOSE i \in at : \A j \in at : i <= j
            IN CHOOSE d \in HitsOf(own, key, version, types[first]) : TRUE

\* a variant of the search that goes through the whole subtree of a child
\* before it looks at the next child
RECURSIVE FishDepthFirst(_, _, _, _, _)
FishDepthFirst(tree, level, key, version, types) ==
    IF level = <<>> THEN NoDefinition
    ELSE LET here == FishInStore(tree[Head(level)].own, key, version, types)
             below == FishDepthFirst(tree, tree[Head(level)].children, key, version, types)
         IN IF here # NoDefinition THEN here
            ELSE IF below # NoDefinition THEN below
            ELSE FishDepthFirst(tree, Tail(level), key, version, types)

\* the search in the stores of one level, in order, then in the next level
RECURSIVE FishLevel(_, _, _, _, _)
FishLevel(tree, level, key, version, types) ==
    LET RECURSIVE Below(_)
        Below(stores) ==
            IF stores = <<>> THEN <<>>
            ELSE tree[Head(stores)].children \o Below(Tail(stores))
        at == {i \in 1..Len(level) :
                  FishInStore(tree[level[i]].own, key, version, types) # NoDefinition}
    IN IF level = <<>> THEN NoDefinition
       ELSE IF at # {}
       THEN FishInStore(tree[level[CHOOSE i \in at : \A j \in at : i <= j]].own,
                        key, version, types)
       ELSE FishLevel(tree, Below(level), key, version, types)

\* defs.fishForFHIR(item, ...types), defs being the root of the tree
FishForFHIR(tree, item, types) ==
    LET split == SplitItem(item)
    IN FishLevel(tree, <<1>>, split.key, split.version,
                 IF types = <<>> THEN FishingOrder ELSE types)

\* the definitions a walk of the tree from store s comes by, each as often as
\* it is come by; with a package label, those of the stores of that label only
RECURSIVE CollectDefinitions(_, _, _)
CollectDefinitions(tree, s, label) ==
    LET RECURSIVE OfChildren(_)
        OfChildren(children) ==
            IF children = <<>> THEN EmptyBag
            ELSE CollectDefinitions(tree, Head(children), label)
                     (+) OfChildren(Tail(children))
        own == IF label = "" \/ tree[s].package = label
               THEN SetToBag(tree[s].own) ELSE EmptyBag
    IN own (+) OfChildren(tree[s].children)

\* the accessor without the removal of duplicates
AllOfRepeated(tree, type, label) ==
    LET collected == CollectDefinitions(tree, 1, label)
    IN [d \in {e \in BagToSet(collected) : type = "any" \/ e.type = type} |->
            collected[d]]

\* defs.allResources(label), defs.allValueSets(label), ... and, for type "any",
\* what defs.size() counts: the report, as a bag of definitions
AllOf(tree, type, label) ==
    LET collected == CollectDefinitions(tree, 1, label)
    IN SetToBag({d \in BagToSet(collected) : type = "any" \/ d.type = type})

\* ------------------------------------------------------------------ errors

PackageLoadError(full, reg) ==
    [kind |-> "PackageLoadError", pkg |-> full, reg |-> reg, patch |-> FALSE]
CurrentPackageLoadError(full) ==
    [kind |-> "CurrentPackageLoadError", pkg |-> full, reg |-> Null, patch |-> FALSE]
IncorrectWildcardVersionFormatError(name, version) ==
    [kind |-> "IncorrectWildcardVersionFormatError", pkg |-> Key(name, version),
     reg |-> Null, patch |-> FALSE]
LatestVersionUnavailableError(name, reg, isPatch) ==
    [kind |-> "LatestVersionUnavailableError", pkg |-> name, reg |-> reg, patch |-> isPatch]
\* what axiosGet rejects with, and what reading a property of undefined throws
NetworkError == [kind |-> "NetworkError", pkg |-> Null, reg |-> Null, patch |-> FALSE]
TypeError == [kind |-> "TypeError", pkg |-> Null, reg |-> Null, patch |-> FALSE]
NoError == [kind |-> "none", pkg |-> Null, reg |-> Null, patch |-> FALSE]

\* getCustomRegistry(): process.env.FPL_REGISTRY
GetCustomRegistry == env

\* ------------------------------------------------------------------ semver

DigitVal(ch) ==
    CASE ch = "0" -> 0 [] ch = "1" -> 1 [] ch = "2" -> 2 [] ch = "3" -> 3
      [] ch = "4" -> 4 [] ch = "5" -> 5 [] ch = "6" -> 6 [] ch = "7" -> 7
      [] ch = "8" -> 8 [] ch = "9" -> 9

RECURSIVE ToNum(_)
ToNum(ds) == IF ds = <<>> THEN 0 ELSE 10 * ToNum(SubSeq(ds, 1, Len(ds) - 1)) + DigitVal(ds[Len(ds)])

\* a version MAJOR.MINOR.PATCH with an optional -prerelease or +build
IsSemVer(v) ==
    \E i \in 1..Len(v), j \in 1..Len(v), k \in 1..Len(v) :
        /\ AllDigits(v, 1, i) /\ v[i + 1] = "." /\ i + 1 < j
        /\ AllDigits(v, i + 2, j) /\ j + 1 < k /\ v[j + 1] = "."
        /\ AllDigits(v, j + 2, k)
        /\ \/ Len(v) = k
           \/ Len(v) > k + 1 /\ v[k + 1] \in {"-", "+"}

SemVer(v) ==
    LET i == IndexOf(v, ".") - 1
        rest == SubSeq(v, i + 2, Len(v))
        j == IndexOf(rest, ".") - 1
        tail == SubSeq(rest, j + 2, Len(rest))
        k == CHOOSE n \in 0..Len(tail) :
                 /\ AllDigits(tail, 1, n)
                 /\ n = Len(tail) \/ tail[n + 1] \notin Digits
    IN [major |-> ToNum(SubSeq(v, 1, i)), minor |-> ToNum(SubSeq(rest, 1, j)),
        patch |-> ToNum(SubSeq(tail, 1, k)),
        pre |-> k < Len(tail) /\ tail[k + 1] = "-"]

\* semver's satisfies(v, "X.Y.x"): >=X.Y.0 <X.(Y+1).0, and no pre-release (build
\* metadata takes no part in the comparison)
SatisfiesPatchRange(v, range) ==
    /\ IsSemVer(v)
    /\ LET sv == SemVer(v)
           i == IndexOf(range, ".") - 1
           rest == SubSeq(range, i + 2, Len(range))
           j == IndexOf(rest, ".") - 1
       IN /\ sv.major = ToNum(SubSeq(range, 1, i))
          /\ sv.minor = ToNum(SubSeq(rest, 1, j))
          /\ ~sv.pre

\* semver's maxSatisfying(versions, range); Null when none satisfies
MaxSatisfying(versions, range) ==
    LET ok == {v \in {versions[i] : i \in 1..Len(versions)} : SatisfiesPatchRange(v, range)}
    IN IF ok = {} THEN Null
       ELSE CHOOSE v \in ok : \A w \in ok : SemVer(w).patch <= SemVer(v).patch


\* ------------------------------------------------------- build-server listing

QaSuffix == <<"/", "qa.json">>

\* p.repo.match(/\/(master|main)\/qa\.json$/)
OnMainBranch(repo) ==
    EndsWith(repo, <<"/", "master">> \o QaSuffix) \/ EndsWith(repo, <<"/", "main">> \o QaSuffix)

\* p.repo.endsWith(`/${branch}/qa.json`)
OnBranch(repo, branch) == EndsWith(repo, <<"/">> \o branch \o QaSuffix)

\* version.slice(version.indexOf('$') + 1) when the version has a '$', else Null
BranchOf(version) ==
    IF IndexOf(version, "$") # 0
    THEN SubSeq(version, IndexOf(version, "$") + 1, Len(version))
    ELSE Null

\* the entries of qaData for this package and branch, in listing order
MatchingPackages(qaData, name, branch) ==
    SelectSeq(qaData, LAMBDA p :
        /\ p.id = name
        /\ IF branch = Null THEN OnMainBranch(p.repo) ELSE OnBranch(p.repo, branch))

\* matchingPackages.sort((p1, p2) => Date.parse(p2.date) - Date.parse(p1.date))[0]:
\* the sort is stable, so the first of the entries with the latest date
NoEntry == [id |-> Null, date |-> 0, repo |-> Null]

\* a variant that takes the first matching entry, whatever its date
FirstPackage(matching) == IF matching = <<>> THEN NoEntry ELSE matching[1]

NewestPackage(matching) ==
    IF matching = <<>> THEN NoEntry
    ELSE matching[CHOOSE i \in 1..Len(matching) :
            /\ \A j \in 1..Len(matching) : matching[j].date <= matching[i].date
            /\ \A j \in 1..(i - 1) : matching[j].date < matching[i].date]

\* `${baseUrl}/${newestPackage.repo.slice(0, -8)}`
IgUrl(repo) == <<BuildHost, "/", "ig", "/">> \o SubSeq(repo, 1, Len(repo) - Len(QaSuffix))

ManifestUrl(igUrl) == igUrl \o <<"/", "package.manifest.json">>
CurrentTgzUrl(igUrl) == igUrl \o <<"/", "package.tgz">>

\* ------------------------------------------------------------------- tasks
\* A context c is one running call (c.tk) with the process state it works on.

NewTask(op, caller, name, version, store) ==
    [op |-> op, caller |-> caller, name |-> name, version |-> version,
     reqName |-> name, reqVersion |-> version, store |-> store,
     pc |-> "start", full |-> Null, loadPath |-> Null, loaded |-> NoPackage,
     purl |-> Null, igUrl |-> Null, reqs |-> <<>>, tries |-> <<>>,
     answers |-> <<>>, err |-> NoError, merged |-> FALSE]

Finished(tk) == tk.pc \in {"done", "failed"}

\* throw e
Throw(c, e) == [c EXCEPT !.tk.pc = "failed", !.tk.err = e]

\* await axiosGet(url, {responseType: rt}): the request leaves and the task waits
AxiosGet(c, url, rt, pc) ==
    [c EXCEPT !.tk.reqs = Append(@, [url |-> url, rt |-> rt]), !.tk.pc = pc,
              !.listed = IF url = QasUrl THEN Append(@, now) ELSE @]

\* a variant of loadFromPath that consults the PackageCache only
LoadFromMemory(c, targetPackage) ==
    IF PcContains(c.pcache, targetPackage)
    THEN [c EXCEPT !.tk.loaded = PcGet(c.pcache, targetPackage)]
    ELSE [c EXCEPT !.tk.loaded = NoPackage]

\* a variant of loadFromPath that reads the directory whatever the PackageCache
\* holds
LoadFromPathAfresh(c, targetPackage) ==
    LET found == {e \in c.disk : ToLowerCase(e.dir) = targetPackage}
    IN IF found = {} THEN [c EXCEPT !.tk.loaded = NoPackage]
       ELSE LET cachedPackage == CHOOSE e \in found : TRUE
                result == [package |-> targetPackage, gen |-> cachedPackage.gen]
            IN [c EXCEPT !.tk.loaded = result,
                         !.pcache = PcPut(@, targetPackage, result)]

\* loadedPackage = loadFromPath(cachePath, targetPackage)
LoadFromPath(c, targetPackage) ==
    IF PcContains(c.pcache, targetPackage)
    THEN [c EXCEPT !.tk.loaded = PcGet(c.pcache, targetPackage)]
    ELSE LET found == {e \in c.disk : ToLowerCase(e.dir) = targetPackage}
         IN IF found = {} THEN [c EXCEPT !.tk.loaded = NoPackage]
            ELSE LET cachedPackage == CHOOSE e \in found : TRUE
                     result == [package |-> targetPackage, gen |-> cachedPackage.gen]
                 IN [c EXCEPT !.tk.loaded = result,
                              !.pcache = PcPut(@, targetPackage, result)]

\* the end of mergeDependency: throw, or merge what was loaded into the store
FinishMerge(c) ==
    IF c.tk.loaded = NoPackage
    THEN Throw(c, PackageLoadError(c.tk.full, GetCustomRegistry))
    ELSE [c EXCEPT !.heap[c.tk.store] = Merge(c.tk.loaded, @),
                   !.tk.pc = "done", !.tk.merged = TRUE]

\* if (packageUrl) { ... await doDownload(packageUrl) ... }
StartDownload(c) ==
    IF c.tk.purl # Null
    THEN AxiosGet(c, c.tk.purl, "arraybuffer", "dl1")
    ELSE FinishMerge(c)

\* mergeDependency from the cache lookup to its first request
AfterResolve(c0) ==
    LET name == c0.tk.name
        full0 == Key(name, c0.tk.version)
        c1 == LoadFromPath([c0 EXCEPT !.tk.full = full0, !.tk.loadPath = full0], full0)
        c2 == IF c1.tk.version = VDev /\ c1.tk.loaded = NoPackage
              THEN LoadFromPath([c1 EXCEPT !.tk.version = VCurrent,
                                           !.tk.full = Key(name, VCurrent)],
                                Key(name, VCurrent))
              ELSE c1
        v == c2.tk.version
    IN IF StartsWith(name, R5Prefix) /\ v = VCurrent
       THEN StartDownload([c2 EXCEPT !.tk.purl = R5CurrentUrl(name)])
       ELSE IF IsCurrentVersion(v)
       THEN IF IsCurrentPackageRefreshNeeded(c2.last, now)
            THEN AxiosGet([c2 EXCEPT !.last = now], QasUrl, "none", "qas")
            ELSE StartDownload(c2)
       ELSE IF c2.tk.loaded = NoPackage
       THEN IF GetCustomRegistry # Null
            THEN AxiosGet(c2, CustomMetaUrl(GetCustomRegistry, name), "none", "dist")
            ELSE StartDownload([c2 EXCEPT !.tk.purl = PrimaryUrl(name, v)])
       ELSE StartDownload(c2)

\* a variant of the first look-up request that overlooks the custom registry
StartLookUpAtPrimary(c, pc) == AxiosGet(c, PrimaryMetaUrl(c.tk.name), "json", pc)

\* the first request of lookUpLatestVersion / lookUpLatestPatchVersion
StartLookUp(c, pc) ==
    IF GetCustomRegistry # Null
    THEN AxiosGet(c, CustomMetaUrl(GetCustomRegistry, c.tk.name), "json", pc)
    ELSE AxiosGet(c, PrimaryMetaUrl(c.tk.name), "json", pc)

LookUpLatestVersion(c) == StartLookUp(c, "latest1")

LookUpLatestPatchVersion(c) ==
    IF ~IsPatchWildcard(c.tk.version)
    THEN Throw(c, IncorrectWildcardVersionFormatError(c.tk.name, c.tk.version))
    ELSE StartLookUp(c, "patch1")

\* mergeDependency up to its first await
MergeDependency(c) ==
    IF c.tk.version = VLatest THEN LookUpLatestVersion(c)
    ELSE IF IsPatchWildcard(c.tk.version) THEN LookUpLatestPatchVersion(c)
    ELSE IF IsMinorWildcard(c.tk.version)
    THEN Throw(c, IncorrectWildcardVersionFormatError(c.tk.name, c.tk.version))
    ELSE AfterResolve(c)

\* a look-up returned `version`: mergeDependency goes on, a direct call returns
Resolved(c, version) ==
    IF c.tk.op = "mergeDependency"
    THEN AfterResolve([c EXCEPT !.tk.version = version])
    ELSE [c EXCEPT !.tk.version = version, !.tk.pc = "done"]


\* --------------------------------------------------------------- responses
\* What the network answers. A request fails (axiosGet rejects) or returns a body.

CdnUrl == <<"https://cdn.example.org/pkg.tgz">>

\* the `latest` dist-tag of a metadata body: absent, empty, or a version
LatestTags == {Null, <<>>, V100, V102t}

\* Object.keys(res.data.versions) of a metadata body that has `versions`
VersionListings == {<<>>, <<V100, V101, V102t, V110>>, <<V110>>, <<V100, V101b>>}

\* versions[version].dist.tarball in a metadata body (Null: not listed)
Tarballs(name, version) == {Null, CdnUrl, PrimaryUrl(name, version)}

RepoOf(org, branch) == <<org, "/", "branches", "/">> \o branch \o QaSuffix

QaFull ==
    << [id |-> PkgA, date |-> 1, repo |-> RepoOf("orgA", <<"main">>)],
       [id |-> <<"other">>, date |-> 3, repo |-> RepoOf("orgD", <<"main">>)],
       [id |-> PkgA, date |-> 2, repo |-> RepoOf("orgB", <<"master">>)],
       [id |-> PkgA, date |-> 3, repo |-> RepoOf("orgC", <<"b">>)] >>

QaBranchOnly == << [id |-> PkgA, date |-> 1, repo |-> RepoOf("orgC", <<"b">>)] >>

\* the bodies of qas.json, when the response has data
QaListings == {<<>>, QaFull, QaBranchOnly}

\* the `date` of a package.manifest.json (Null: none)
ManifestDates == {Null, OldGen, NewGen}

\* how doDownload's request and the synchronous steps after it end: the request
\* fails, the response has no data, or the named step throws ("ok": none does)
DownloadOutcomes ==
    {"fail", "nodata", "write", "extract", "clean", "remove", "move", "load", "ok"}

\* ---------------------------------------------------------------- handlers

\* what was answered to a request for a registry's metadata, the build listing
\* or a build's manifest (answers keeps them in order): the request failed, or
\* the body's tag / version list / entries / date when it has one
Answered(c, ok, has, body) ==
    [c EXCEPT !.tk.answers = Append(@, [ok |-> ok, has |-> has, body |-> body])]

\* a variant of lookUpLatestVersion that drops the qualifier of the tag
OnLatestResponseRelease(c0, ok, latest) ==
    LET customRegistry == GetCustomRegistry
        c == Answered(c0, ok, latest # Null, latest)
        cut == IndexOf(latest, "-")
    IN IF ~ok
       THEN IF customRegistry = Null /\ c.tk.pc = "latest1"
            THEN AxiosGet(c, SecondaryMetaUrl(c.tk.name), "json", "latest2")
            ELSE Throw(c, LatestVersionUnavailableError(c.tk.name, customRegistry, FALSE))
       ELSE IF latest # Null /\ Len(latest) > 0
            THEN Resolved(c, IF cut = 0 THEN latest ELSE SubSeq(latest, 1, cut - 1))
            ELSE Throw(c, LatestVersionUnavailableError(c.tk.name, customRegistry, FALSE))

\* lookUpLatestVersion after a response
OnLatestResponse(c0, ok, latest) ==
    LET customRegistry == GetCustomRegistry
        c == Answered(c0, ok, latest # Null, latest)
    IN IF ~ok
       THEN IF customRegistry = Null /\ c.tk.pc = "latest1"
            THEN AxiosGet(c, SecondaryMetaUrl(c.tk.name), "json", "latest2")
            ELSE Throw(c, LatestVersionUnavailableError(c.tk.name, customRegistry, FALSE))
       ELSE IF latest # Null /\ Len(latest) > 0
            THEN Resolved(c, latest)
            ELSE Throw(c, LatestVersionUnavailableError(c.tk.name, customRegistry, FALSE))

\* a variant of lookUpLatestPatchVersion that also turns to the secondary registry
\* when the primary answers with a body it cannot use
OnPatchResponseRetriesUnusable(c0, ok, hasVersions, versions) ==
    LET customRegistry == GetCustomRegistry
        c == Answered(c0, ok, hasVersions, versions)
        unavailable == Throw(c, LatestVersionUnavailableError(c.tk.name, customRegistry, TRUE))
        latest == IF ok /\ hasVersions THEN MaxSatisfying(versions, c.tk.version) ELSE Null
    IN IF latest # Null THEN Resolved(c, latest)
       ELSE IF customRegistry = Null /\ c.tk.pc = "patch1"
       THEN AxiosGet(c, SecondaryMetaUrl(c.tk.name), "json", "patch2")
       ELSE unavailable

\* lookUpLatestPatchVersion after a response
OnPatchResponse(c0, ok, hasVersions, versions) ==
    LET customRegistry == GetCustomRegistry
        c == Answered(c0, ok, hasVersions, versions)
        unavailable == Throw(c, LatestVersionUnavailableError(c.tk.name, customRegistry, TRUE))
    IN IF ~ok
       THEN IF customRegistry = Null /\ c.tk.pc = "patch1"
            THEN AxiosGet(c, SecondaryMetaUrl(c.tk.name), "json", "patch2")
            ELSE unavailable
       ELSE IF hasVersions
            THEN LET latest == MaxSatisfying(versions, c.tk.version)
                 IN IF latest = Null THEN unavailable ELSE Resolved(c, latest)
            ELSE unavailable

\* getDistUrl after its response, and mergeDependency on to the download
OnDistResponse(c, ok, npmLocation) ==
    IF ~ok THEN Throw(c, NetworkError)
    ELSE IF npmLocation # Null
    THEN StartDownload([c EXCEPT !.tk.purl = npmLocation])
    ELSE StartDownload([c EXCEPT !.tk.purl =
            CustomFallbackUrl(GetCustomRegistry, c.tk.name, c.tk.version)])

\* mergeDependency after the answer to qas.json
OnQasResponse(c0, ok, hasData, qaData) ==
    LET c == Answered(c0, ok, hasData, qaData)
    IN
    IF ~ok THEN Throw(c, NetworkError)
    ELSE LET branch == BranchOf(c.tk.version)
             newestPackage ==
                 IF hasData /\ Len(qaData) > 0
                 THEN NewestPackage(MatchingPackages(qaData, c.tk.name, branch))
                 ELSE NoEntry
         IN IF newestPackage.repo # Null
            THEN LET igUrl == IgUrl(newestPackage.repo)
                 IN AxiosGet([c EXCEPT !.tk.igUrl = igUrl], ManifestUrl(igUrl), "none", "manifest")
            ELSE Throw(c, CurrentPackageLoadError(c.tk.full))

\* mergeDependency after the answer to package.manifest.json
OnManifestResponse(c0, ok, date) ==
    LET c == Answered(c0, ok, date # Null, date)
    IN
    IF ~ok THEN Throw(c, NetworkError)
    ELSE LET hasJson == DirExists(c.disk, c.tk.loadPath)
             cachedDate == IF hasJson THEN DirEntry(c.disk, c.tk.loadPath).date ELSE Null
         IN IF date # cachedDate
            THEN StartDownload([c EXCEPT !.tk.purl = CurrentTgzUrl(c.tk.igUrl)])
            ELSE IF ~hasJson THEN Throw(c, TypeError)  \* cachedPackageJSON.date of undefined
            ELSE StartDownload(c)

\* doDownload after its response: [c: the context after it, threw: it threw]
DoDownload(c0, outcome) ==
    LET targetDirectory == c0.tk.full
        removed == RemoveDir(c0.disk, targetDirectory)
        \* temp.openSync(), temp.mkdirSync(): what they create stays until it is
        \* removed (temp.track() does so when the process exits) or moved
        c1 == [c0 EXCEPT !.temps = @ \cup {"file"}]
        c2 == [c1 EXCEPT !.temps = @ \cup {"dir"}]
        c3 == [c2 EXCEPT !.temps = @ \ {"dir"}]
    IN CASE outcome = "nodata" -> [c |-> c0, threw |-> FALSE]
         [] outcome = "fail" -> [c |-> c0, threw |-> TRUE]
         [] outcome = "write" -> [c |-> c1, threw |-> TRUE]
         [] outcome \in {"extract", "clean", "remove"} -> [c |-> c2, threw |-> TRUE]
         [] outcome = "move" -> [c |-> [c2 EXCEPT !.disk = removed], threw |-> TRUE]
         [] outcome = "load" ->
                [c |-> [c3 EXCEPT !.disk = MoveInto(removed, targetDirectory)], threw |-> TRUE]
         [] outcome = "ok" ->
                [c |-> LoadFromPath([c3 EXCEPT !.disk = MoveInto(removed, targetDirectory)],
                                    c3.tk.full),
                 threw |-> FALSE]

\* how a download attempt ended, as its caller sees it
Attempt(outcome) == IF outcome \in {"nodata", "ok"} THEN outcome ELSE "threw"

\* mergeDependency after a download attempt: the try / catch around doDownload
\* (tries keeps how each attempt ended)
OnDownloadResponse(c, outcome) ==
    LET d == DoDownload([c EXCEPT !.tk.tries = Append(@, Attempt(outcome))], outcome)
        name == c.tk.name
        version == c.tk.version
    IN IF ~d.threw THEN FinishMerge(d.c)
       ELSE IF c.tk.pc = "dl1"
       THEN IF c.tk.purl = PrimaryUrl(name, version)
            THEN AxiosGet([d.c EXCEPT !.tk.purl = SecondaryUrl(name, version)],
                          SecondaryUrl(name, version), "arraybuffer", "dl2")
            ELSE Throw(d.c, PackageLoadError(c.tk.full, GetCustomRegistry))
       ELSE Throw(d.c, PackageLoadError(c.tk.full, Null))


\* ------------------------------------------------------------- API calls

\* the context of a task: the process state it reads and writes
Ctx(tk) ==
    [tk |-> tk, disk |-> disk, pcache |-> pcache, last |-> lastUpdate,
     heap |-> heap, errlog |-> errlog, listed |-> listed, temps |-> temps]

NoCall ==
    [op |-> "none", state |-> "idle", args |-> <<>>, target |-> 0, result |-> 0,
     version |-> Null, err |-> NoError]

\* a variant of the catch handler that labels the store with the version
\* mergeDependency resolved instead of the version requested
CatchLabelsResolved(c) ==
    LET label == Key(c.tk.name, c.tk.version)
    IN [c EXCEPT !.errlog = Append(@, [level |-> "error", pkg |-> label, err |-> c.tk.err]),
                 !.heap[c.tk.store].unsuccessful = TRUE,
                 !.heap[c.tk.store].package = label]

\* loadDependencies' .catch((e: Error) => { ... }) on a task's promise
CatchLoadFailure(c) ==
    LET label == Key(c.tk.reqName, c.tk.reqVersion)
    IN [c EXCEPT !.errlog = Append(@, [level |-> "error", pkg |-> label, err |-> c.tk.err]),
                 !.heap[c.tk.store].unsuccessful = TRUE,
                 !.heap[c.tk.store].package = label]

\* a variant of loadDependency's return whose wrapper also takes over the
\* definitions of the store it wraps
LoadDependencyWrapperCopies(h, FHIRDefs, newFHIRDefs) ==
    IF Len(h[FHIRDefs].children) = 0
    THEN [heap |-> Append(h, [h[FHIRDefs] EXCEPT !.children = <<FHIRDefs, newFHIRDefs>>]),
          result |-> Len(h) + 1]
    ELSE [heap |-> [h EXCEPT ![FHIRDefs].children = Append(@, newFHIRDefs)],
          result |-> FHIRDefs]

\* a variant of loadDependency's return that always pushes onto the given store
LoadDependencyPushes(h, FHIRDefs, newFHIRDefs) ==
    [heap |-> [h EXCEPT ![FHIRDefs].children = Append(@, newFHIRDefs)],
     result |-> FHIRDefs]

\* loadDependency after `await mergeDependency(...)`: the heap and the store returned
LoadDependencyReturn(h, FHIRDefs, newFHIRDefs) ==
    IF Len(h[FHIRDefs].children) = 0
    THEN [heap |-> Append(h, [EmptyStore EXCEPT !.children = <<FHIRDefs, newFHIRDefs>>]),
          result |-> Len(h) + 1]
    ELSE [heap |-> [h EXCEPT ![FHIRDefs].children = Append(@, newFHIRDefs)],
          result |-> FHIRDefs]

\* what follows a task's step in its caller: [c: the context, call: the call]
AfterStep(c, cl) ==
    IF cl.op = "loadDependencies"
    THEN [c |-> IF c.tk.pc = "failed" THEN CatchLoadFailure(c) ELSE c, call |-> cl]
    ELSE IF ~Finished(c.tk) THEN [c |-> c, call |-> cl]
    ELSE IF c.tk.pc = "failed"
    THEN [c |-> c, call |-> [cl EXCEPT !.state = "rejected", !.err = c.tk.err]]
    ELSE IF cl.op = "loadDependency"
    THEN LET r == LoadDependencyReturn(c.heap, cl.target, c.tk.store)
         IN [c |-> [c EXCEPT !.heap = r.heap],
             call |-> [cl EXCEPT !.state = "resolved", !.result = r.result]]
    ELSE [c |-> c, call |-> [cl EXCEPT !.state = "resolved", !.version = c.tk.version]]

\* fhirPackages.map(fhirPackage => ...): each request gets a fresh store and its
\* mergeDependency runs to its first await, in request order
RECURSIVE MapRequests(_, _, _, _)
MapRequests(c, cl, fhirPackages, acc) ==
    IF fhirPackages = <<>> THEN [c |-> c, tks |-> acc]
    ELSE LET parts == Split(Head(fhirPackages), "#")
             fhirPackageId == parts[1]
             fhirPackageVersion == IF Len(parts) > 1 THEN parts[2] ELSE Undefined
             fhirDefs == Len(c.heap) + 1
             tk == NewTask("mergeDependency", "loadDependencies",
                           fhirPackageId, fhirPackageVersion, fhirDefs)
             c1 == AfterStep(MergeDependency([c EXCEPT !.heap = Append(@, EmptyStore),
                                                       !.tk = tk]), cl).c
         IN MapRequests(c1, cl, Tail(fhirPackages), Append(acc, c1.tk))

\* the indices of the finished tasks of tks, in order
RECURSIVE FinishedIn(_, _)
FinishedIn(tks, i) ==
    IF i > Len(tks) THEN <<>>
    ELSE (IF Finished(tks[i]) THEN <<i>> ELSE <<>>) \o FinishedIn(tks, i + 1)

\* a variant of Promise.all that yields the values in the order they settled
PromiseAllBySettling(tks, order) == [i \in 1..Len(tks) |-> tks[order[i]].store]

\* Promise.all(promises): the values, by the position of their promise
PromiseAll(tks, order) == [i \in 1..Len(tks) |-> tks[i].store]

\* .then(fhirDefs => ...) of loadDependencies: the heap and the store returned
\* (0: undefined)
LoadDependenciesReturn(h, fhirDefs) ==
    IF Len(fhirDefs) > 1
    THEN [heap |-> Append(h, [EmptyStore EXCEPT !.children = fhirDefs]),
          result |-> Len(h) + 1]
    ELSE [heap |-> h, result |-> IF Len(fhirDefs) = 1 THEN fhirDefs[1] ELSE 0]

Lists(S, n) == UNION {[1..k -> S] : k \in 0..n}

NameOf(request) == Split(request, "#")[1]
VersionOf(request) == Split(request, "#")[2]

\* ---------------------------------------------------------------- actions

Idle == call.state # "running" /\ budget > 0

\* the process state after a step of a task, and the call after it
Commit(c, cl, tks, done) ==
    /\ tasks' = tks
    /\ disk' = c.disk
    /\ pcache' = c.pcache
    /\ lastUpdate' = c.last
    /\ heap' = c.heap
    /\ errlog' = c.errlog
    /\ call' = cl
    /\ settled' = done
    /\ listed' = c.listed
    /\ temps' = c.temps
    /\ UNCHANGED <<env, now, pool, width, aside>>

\* a caller calls loadDependencies(fhirPackages, cachePath, log)
CallLoadDependencies ==
    /\ Idle
    /\ \E fhirPackages \in Lists(pool, width) :
        LET cl == [NoCall EXCEPT !.op = "loadDependencies", !.state = "running",
                                 !.args = fhirPackages]
            r == MapRequests([Ctx(NewTask("none", "none", Null, Null, 0))
                                 EXCEPT !.errlog = <<>>], cl, fhirPackages, <<>>)
        IN Commit(r.c, cl, r.tks, FinishedIn(r.tks, 1))
    /\ budget' = budget - 1

\* a variant of Promise.all that is fulfilled when the first promise settles
\* (or at once, when there is none)
FirstSettled(tks) == tks # <<>> => \E t \in 1..Len(tks) : Finished(tks[t])

\* Promise.all(promises) is fulfilled: every promise is (none rejects, each
\* task's promise being the one its .catch returns)
AllSettled(tks) == \A t \in 1..Len(tks) : Finished(tks[t])

\* Promise.all resolves once every task's promise has: loadDependencies returns
Deliver ==
    /\ call.op = "loadDependencies" /\ call.state = "running"
    /\ AllSettled(tasks)
    /\ LET r == LoadDependenciesReturn(heap, PromiseAll(tasks, settled))
       IN /\ heap' = r.heap
          /\ call' = [call EXCEPT !.state = "resolved", !.result = r.result]
    /\ UNCHANGED <<env, disk, pcache, lastUpdate, now, tasks, errlog, settled, listed,
                   temps, pool, width, budget, aside>>

\* a caller calls loadDependency(packageName, version, FHIRDefs, cachePath, log),
\* FHIRDefs being a store it holds or a new FHIRDefinitions() (target 0)
CallLoadDependency ==
    /\ Idle
    /\ \E request \in pool, target \in 0..Len(heap) :
        LET h0 == IF target = 0 THEN Append(heap, EmptyStore) ELSE heap
            FHIRDefs == IF target = 0 THEN Len(h0) ELSE target
            newFHIRDefs == Len(h0) + 1
            cl == [NoCall EXCEPT !.op = "loadDependency", !.state = "running",
                                 !.args = <<request>>, !.target = FHIRDefs]
            tk == NewTask("mergeDependency", "loadDependency",
                          NameOf(request), VersionOf(request), newFHIRDefs)
            r == AfterStep(MergeDependency([Ctx(tk) EXCEPT !.heap = Append(h0, EmptyStore),
                                                           !.errlog = <<>>]), cl)
        IN Commit(r.c, r.call, <<r.c.tk>>, FinishedIn(<<r.c.tk>>, 1))
    /\ budget' = budget - 1

\* a caller calls lookUpLatestVersion(packageName, log)
CallLookUpLatestVersion ==
    /\ Idle
    /\ \E request \in pool :
        LET cl == [NoCall EXCEPT !.op = "lookUpLatestVersion", !.state = "running",
                                 !.args = <<request>>]
            tk == NewTask("lookUpLatestVersion", "direct", NameOf(request), VLatest, 0)
            r == AfterStep(LookUpLatestVersion([Ctx(tk) EXCEPT !.errlog = <<>>]), cl)
        IN Commit(r.c, r.call, <<r.c.tk>>, FinishedIn(<<r.c.tk>>, 1))
    /\ budget' = budget - 1

\* a caller calls lookUpLatestPatchVersion(packageName, version, log)
CallLookUpLatestPatchVersion ==
    /\ Idle
    /\ \E request \in pool :
        LET cl == [NoCall EXCEPT !.op = "lookUpLatestPatchVersion", !.state = "running",
                                 !.args = <<request>>]
            tk == NewTask("lookUpLatestPatchVersion", "direct",
                          NameOf(request), VersionOf(request), 0)
            r == AfterStep(LookUpLatestPatchVersion([Ctx(tk) EXCEPT !.errlog = <<>>]), cl)
        IN Commit(r.c, r.call, <<r.c.tk>>, FinishedIn(<<r.c.tk>>, 1))
    /\ budget' = budget - 1

\* task t's step c ends: its caller's continuation runs and the state is stored
Step(t, c) ==
    LET r == AfterStep(c, call)
    IN /\ Commit(r.c, r.call, [tasks EXCEPT ![t] = r.c.tk],
                 IF Finished(r.c.tk) THEN Append(settled, t) ELSE settled)
       /\ UNCHANGED budget

Awaiting(t, pcs) == call.state = "running" /\ t \in 1..Len(tasks) /\ tasks[t].pc \in pcs

\* the registry answers a lookUpLatestVersion request
RespondLatestTo(t) ==
    /\ Awaiting(t, {"latest1", "latest2"})
    /\ \E ok \in BOOLEAN, latest \in LatestTags :
        /\ ok \/ latest = Null
        /\ Step(t, OnLatestResponse(Ctx(tasks[t]), ok, latest))

RespondLatest == \E t \in 1..Len(tasks) : RespondLatestTo(t)

\* the registry answers a lookUpLatestPatchVersion request
RespondPatchTo(t) ==
    /\ Awaiting(t, {"patch1", "patch2"})
    /\ \E ok \in BOOLEAN, hasVersions \in BOOLEAN, versions \in VersionListings :
        /\ (ok /\ hasVersions) \/ versions = <<>>
        /\ ok \/ ~hasVersions
        /\ Step(t, OnPatchResponse(Ctx(tasks[t]), ok, hasVersions, versions))

RespondPatch == \E t \in 1..Len(tasks) : RespondPatchTo(t)

\* the custom registry answers getDistUrl's metadata request
RespondDistTo(t) ==
    /\ Awaiting(t, {"dist"})
    /\ \E ok \in BOOLEAN, npmLocation \in Tarballs(tasks[t].name, tasks[t].version) :
        /\ ok \/ npmLocation = Null
        /\ Step(t, OnDistResponse(Ctx(tasks[t]), ok, npmLocation))

RespondDist == \E t \in 1..Len(tasks) : RespondDistTo(t)

\* the build server answers the request for qas.json
RespondQasTo(t) ==
    /\ Awaiting(t, {"qas"})
    /\ \E ok \in BOOLEAN, hasData \in BOOLEAN, qaData \in QaListings :
        /\ (ok /\ hasData) \/ qaData = <<>>
        /\ ok \/ ~hasData
        /\ Step(t, OnQasResponse(Ctx(tasks[t]), ok, hasData, qaData))

RespondQas == \E t \in 1..Len(tasks) : RespondQasTo(t)

\* the build server answers the request for package.manifest.json
RespondManifestTo(t) ==
    /\ Awaiting(t, {"manifest"})
    /\ \E ok \in BOOLEAN, date \in ManifestDates :
        /\ ok \/ date = Null
        /\ Step(t, OnManifestResponse(Ctx(tasks[t]), ok, date))

RespondManifest == \E t \in 1..Len(tasks) : RespondManifestTo(t)

\* a download request is answered and doDownload runs to its end
RespondDownloadTo(t) ==
    /\ Awaiting(t, {"dl1", "dl2"})
    /\ \E outcome \in DownloadOutcomes :
        /\ outcome = "remove" => DirExists(disk, tasks[t].full)
        /\ Step(t, OnDownloadResponse(Ctx(tasks[t]), outcome))

RespondDownload == \E t \in 1..Len(tasks) : RespondDownloadTo(t)

\* half a day passes
Tick ==
    /\ now < MaxTicks * HalfDay
    /\ now' = now + HalfDay
    /\ UNCHANGED <<env, disk, pcache, lastUpdate, heap, tasks, call, errlog, settled,
                   listed, temps, pool, width, budget, aside>>

\* a request of task t is answered
RespondTo(t) ==
    \/ RespondLatestTo(t)
    \/ RespondPatchTo(t)
    \/ RespondDistTo(t)
    \/ RespondQasTo(t)
    \/ RespondManifestTo(t)
    \/ RespondDownloadTo(t)

\* cleanCachedPackage(packageDirectory), called on its own
CallCleanCachedPackage ==
    /\ Len(renamed) < MaxCleans
    /\ LET r == CleanCachedPackage(packageDirectory)
       IN /\ packageDirectory' = r.dir
          /\ renamed' = Append(renamed, r.renames)
    /\ UNCHANGED <<loader, defsTree, fished, counted, otherRoot, loads>>

\* ------------------------------------------------------------ specification

Cached(name, version) == [dir |-> Key(name, version), gen |-> OldGen, date |-> OldGen]

\* the package directories a cache may hold when the process starts
InitDirs ==
    {Cached(PkgA, V100), Cached(PkgA, VCurrent), Cached(PkgA, VDev), Cached(PkgA, VLatest),
     Cached(R5Core, VCurrent)}

InitLoader ==
    /\ env \in Registries
    /\ disk \in {d \in SUBSET InitDirs : Cardinality(d) <= MaxCached}
    /\ pcache = {}
    /\ lastUpdate = NoDate
    /\ now = 0
    /\ heap = <<>>
    /\ tasks = <<>>
    /\ call = NoCall
    /\ errlog = <<>>
    /\ settled = <<>>
    /\ listed = <<>>
    /\ temps = {}

\* no function has been called on its own
InitAside ==
    /\ packageDirectory = NoDirectory
    /\ renamed = <<>>
    /\ defsTree = <<>>
    /\ fished = <<>>
    /\ counted = <<>>
    /\ otherRoot = {}
    /\ loads = <<>>

InitProcess == InitLoader /\ InitAside

\* one call, of any kind, on one request of any kind, under any registry
\* setting
Init == InitProcess /\ pool = AllRequests /\ width = 1 /\ budget = 1

\* the requests of a batch: one that fails at once and one that takes up to four
\* answers
BatchPool == {Request(PkgA, v) : v \in {VMinor, VLatest}}

\* one batch of requests that run side by side and meet in the caches they fill
InitBatch ==
    /\ InitProcess
    /\ env = Null
    /\ disk = {}
    /\ pool = BatchPool /\ width = MaxReq /\ budget = 1

\* calls made one after the other on the stores the earlier ones returned
SeqPool == {Request(PkgA, v) : v \in {V100, VMinor}} \cup {Request(PkgCaps, V100)}

InitSeq ==
    /\ InitProcess
    /\ env = Null
    /\ disk \in {d \in SUBSET {Cached(PkgA, V100), Cached(PkgCaps, V100)} :
                    Cardinality(d) <= MaxCached}
    /\ pool = SeqPool /\ width = 1 /\ budget = MaxCalls

NextSeq ==
    \/ CallLoadDependencies
    \/ CallLoadDependency
    \/ RespondDownload
    \/ Deliver

\* batches of `current` requests, made one after the other while time passes
ClockPool == {Request(PkgA, v) : v \in {VCurrent, VBranch}}

InitClock ==
    /\ InitProcess
    /\ env = Null
    /\ disk = {Cached(PkgA, VCurrent)}
    /\ pool = ClockPool /\ width = MaxReq /\ budget = MaxReq

NextClock ==
    \/ CallLoadDependencies
    \/ RespondQas
    \/ RespondManifest
    \/ RespondDownload
    \/ Deliver
    \/ Tick

\* the names an extracted archive may have at its top level (`other` is a
\* folder), and the files its "package" folder may hold
Directories ==
    LET FileNames == {"StructureDefinition-MyPatient.json", "package.json"}
        EntryNames == FileNames \cup {"other", "package"}
    IN {[top |-> top, inner |-> inner] :
           <<top, inner>> \in {x \in (SUBSET EntryNames) \X (SUBSET FileNames) :
                                  "package" \notin x[1] => x[2] = {}}}

\* cleanCachedPackage applied, again and again, to an extracted archive
InitClean ==
    /\ InitLoader
    /\ env = Null /\ disk = {}
    /\ pool = {} /\ width = 1 /\ budget = 0
    /\ packageDirectory \in Directories
    /\ renamed = <<>>
    /\ defsTree = <<>>
    /\ fished = <<>>
    /\ counted = <<>>
    /\ otherRoot = {}
    /\ loads = <<>>

\* the definitions of the test packages: two that share an id, and a resource
AllergyValueSet ==
    [id |-> <<"allergyintolerance-clinical">>,
     name |-> <<"AllergyIntoleranceClinicalStatusCodes">>,
     url |-> <<"http://hl7.org/fhir/ValueSet/allergyintolerance-clinical">>,
     version |-> <<"4.0.1">>, type |-> "ValueSet"]

AllergyCodeSystem ==
    [id |-> <<"allergyintolerance-clinical">>,
     name |-> <<"AllergyIntoleranceClinicalStatusCodes">>,
     url |-> <<"http://terminology.hl7.org/CodeSystem/allergyintolerance-clinical">>,
     version |-> <<"4.0.1">>, type |-> "CodeSystem"]

Condition ==
    [id |-> <<"Condition">>, name |-> <<"Condition">>,
     url |-> <<"http://hl7.org/fhir/StructureDefinition/Condition">>,
     version |-> <<"4.0.1">>, type |-> "Resource"]

\* the trees fishForFHIR is applied to (stores are numbered level by level,
\* children in insertion order): one store that holds definitions named above
\* or the profiles with a `|` in the version and with no version; an empty
\* store with two such children; a store with two children, the first of
\* which has a child of its own, each with the Condition of package2, that of
\* package3 or none
StoreTrees ==
    LET Owns == SUBSET {AllergyValueSet, AllergyCodeSystem, Condition}
        Conditions == {{}, {[Condition EXCEPT !.version = <<"4.0.2">>]},
                       {[Condition EXCEPT !.version = <<"4.0.3">>]}}
        SimpleProfile(id, version) ==
            [id |-> <<id>>, name |-> <<id>>,
             url |-> <<"http://example.org/StructureDefinition/", id>>,
             version |-> version, type |-> "Profile"]
        Profiles == SUBSET {SimpleProfile("SimpleProfile", <<"1.0.0", "|", "a">>),
                            SimpleProfile("SimpleProfileNoVersion", <<>>),
                            Condition}
        Node(package, own, children) ==
            [package |-> package, own |-> own, children |-> children]
    IN {<<Node("r4-definitions", own, <<>>)>> : own \in Owns \cup Profiles}
         \cup {<<Node("", {}, <<2, 3>>), Node("r4-definitions", o[1], <<>>),
                 Node(other, o[2], <<>>)>> :
                   o \in Owns \X Owns, other \in {"r4-definitions", "other-definitions"}}
         \cup {<<Node("", o[1], <<2, 3>>), Node("package1", o[2], <<4>>),
                 Node("package2", o[3], <<>>), Node("package3", o[4], <<>>)>> :
                   o \in Conditions \X Conditions \X Conditions \X Conditions}

\* defs.fishForFHIR(item, ...types), called on the root of the tree
CallFishForFHIR ==
    /\ Len(fished) < MaxFished
    /\ LET items == {AllergyValueSet.id, AllergyValueSet.name, AllergyCodeSystem.url,
                     Condition.id, Condition.id \o <<"|", "4.0.1">>,
                     Condition.id \o <<"|", "4.0.3">>,
                     <<"SimpleProfile", "|", "1.0.0", "|", "a">>,
                     <<"SimpleProfileNoVersion", "|", "1.0.0">>}
           lists == {<<>>, <<"ValueSet", "CodeSystem">>, <<"CodeSystem", "ValueSet">>,
                     <<"Resource">>,
                     <<"Logical", "Type", "Extension", "ValueSet", "Instance">>}
       IN \E item \in items, types \in lists :
             fished' = Append(fished, [item |-> item, types |-> types,
                                       def |-> FishForFHIR(defsTree, item, types)])
    /\ UNCHANGED <<loader, packageDirectory, renamed, defsTree, counted, otherRoot, loads>>

\* defs.size(), defs.allResources(label), ... called on the root of the tree
CallAll ==
    /\ Len(counted) < MaxCounted
    /\ \E type \in {"any", "Resource", "ValueSet", "CodeSystem", "Profile"},
          label \in {"", "r4-definitions", "other-definitions"} :
             counted' = Append(counted, [type |-> type, label |-> label,
                                         report |-> AllOf(defsTree, type, label)])
    /\ UNCHANGED <<loader, packageDirectory, renamed, defsTree, fished, otherRoot, loads>>

\* a caller calls loadFromPath(cachePath, targetPackage), cachePath being one
\* of two cache directories
CallLoadFromPath ==
    /\ Len(loads) < MaxLoads
    /\ \E root \in {"disk", "otherRoot"},
          targetPackage \in {Key(PkgA, V100), Key(PkgA, VCurrent)} :
            LET c == LoadFromPath([Ctx(NewTask("none", "none", Null, Null, 0))
                                      EXCEPT !.disk = IF root = "disk" THEN disk
                                                      ELSE otherRoot],
                                  targetPackage)
            IN /\ pcache' = c.pcache
               /\ loads' = Append(loads, [cachePath |-> root,
                                          targetPackage |-> targetPackage,
                                          result |-> c.tk.loaded])
    /\ UNCHANGED <<env, disk, lastUpdate, now, heap, tasks, call, errlog, settled,
                   listed, temps, pool, width, budget, packageDirectory, renamed,
                   defsTree, fished, counted, otherRoot>>

\* two cache directories: the one the process starts with and one that holds
\* other copies of the same packages
InitRoots ==
    /\ InitLoader
    /\ env = Null
    /\ pool = {} /\ width = 1 /\ budget = 0
    /\ packageDirectory = NoDirectory
    /\ renamed = <<>>
    /\ defsTree = <<>>
    /\ fished = <<>>
    /\ counted = <<>>
    /\ otherRoot \in {d \in SUBSET {[Cached(PkgA, v) EXCEPT !.gen = NewGen, !.date = NewGen] :
                                       v \in {V100, VCurrent}} :
                         Cardinality(d) <= MaxCached}
    /\ loads = <<>>

\* fishForFHIR applied, again and again, to a tree of stores
InitFish ==
    /\ InitLoader
    /\ env = Null /\ disk = {}
    /\ pool = {} /\ width = 1 /\ budget = 0
    /\ packageDirectory = NoDirectory
    /\ renamed = <<>>
    /\ defsTree \in StoreTrees
    /\ fished = <<>>
    /\ counted = <<>>
    /\ otherRoot = {}
    /\ loads = <<>>

NextStall ==
    \/ CallLoadDependencies
    \/ RespondLatest
    \/ RespondDownload
    \/ Deliver

Next ==
    \/ CallLoadDependencies
    \/ CallLoadDependency
    \/ CallLookUpLatestVersion
    \/ CallLookUpLatestPatchVersion
    \/ RespondLatest
    \/ RespondPatch
    \/ RespondDist
    \/ RespondQas
    \/ RespondManifest
    \/ RespondDownload
    \/ Deliver

Spec == Init /\ [][Next]_vars

\* one call on one request of any kind, or one batch
SpecBatch == (Init \/ InitBatch) /\ [][Next]_vars

SpecSeq == InitSeq /\ [][NextSeq]_vars

SpecClock == InitClock /\ [][NextClock]_vars

SpecClean == InitClean /\ [][CallCleanCachedPackage]_vars

SpecFish == InitFish /\ [][CallFishForFHIR]_vars

SpecRoots == InitRoots /\ [][CallLoadFromPath]_vars

SpecAll == InitFish /\ [][CallAll]_vars

\* the event loop runs the continuation of a settled Promise.all; whether a
\* request is ever answered is up to the network
SpecStall == InitBatch /\ [][NextStall]_vars /\ WF_vars(Deliver)

\* ---------------------------------------------------------------- properties

TaskIds == 1..Len(tasks)

Failed(t) == tasks[t].pc = "failed"

FinishedTask(t) == t \in TaskIds /\ Finished(tasks[t])

BatchCall == call.op = "loadDependencies"

\* the error-level messages logged about a request
ErrorsAbout(request) ==
    {i \in 1..Len(errlog) : errlog[i].level = "error" /\ errlog[i].pkg = request}

\* C1: loadDependencies never rejects; every request whose mergeDependency failed
\* has a store flagged unsuccessfulPackageLoad, labelled with the request's
\* name#version and without own definitions, and one error-level message is
\* logged per failed request (and none for the others).
C1_FailureBecomesFlaggedStore ==
    BatchCall =>
        /\ call.state # "rejected"
        /\ \A t \in TaskIds :
            /\ Failed(t) =>
                /\ heap[tasks[t].store].unsuccessful
                /\ heap[tasks[t].store].package = call.args[t]
                /\ heap[tasks[t].store].own = <<>>
            /\ Cardinality(ErrorsAbout(call.args[t])) =
                   Cardinality({u \in TaskIds : Failed(u) /\ call.args[u] = call.args[t]})
        /\ Len(errlog) = Cardinality({u \in TaskIds : Failed(u)})

\* a batch has returned in which a request failed after its version was resolved
\* to another one, next to a request that loaded
C1_Witness ==
    /\ BatchCall /\ call.state = "resolved" /\ Len(tasks) = 2
    /\ Failed(1) /\ tasks[1].err.kind = "PackageLoadError"
    /\ tasks[1].version # tasks[1].reqVersion
    /\ tasks[2].pc = "done"

\* C2: loadDependencies with one request returns that request's store itself;
\* with n > 1 requests it returns a new store with an empty label and no own
\* definitions whose children are the n per-request stores in request order,
\* in whatever order the tasks completed.
C2_ResultShape ==
    (BatchCall /\ call.state = "resolved" /\ Len(call.args) >= 1) =>
        /\ Len(tasks) = Len(call.args)
        /\ \A t \in TaskIds : Key(tasks[t].reqName, tasks[t].reqVersion) = call.args[t]
        /\ \A t, u \in TaskIds : t # u => tasks[t].store # tasks[u].store
        /\ IF Len(call.args) = 1
           THEN call.result = tasks[1].store
           ELSE /\ call.result \in 1..Len(heap)
                /\ \A t \in TaskIds : call.result # tasks[t].store
                /\ heap[call.result].package = <<>>
                /\ heap[call.result].own = <<>>
                /\ heap[call.result].children = [t \in TaskIds |-> tasks[t].store]

\* a batch of two has returned whose second task completed before its first
C2_Witness ==
    /\ BatchCall /\ call.state = "resolved"
    /\ Len(tasks) = 2 /\ settled = <<2, 1>>
    /\ heap[call.result].children = <<tasks[1].store, tasks[2].store>>


\* the batch result is delivered only after every task has finished
DeliveredAfterAll == (BatchCall /\ call.state = "resolved") => AllSettled(tasks)

\* a step of the batch changes the record of at most one task, changes no store
\* but that task's own (and the aggregator made on delivery), and changes
\* neither the record nor the store of a task that has finished
SiblingsUntouched ==
    (BatchCall /\ budget' = budget) =>
        /\ Len(tasks') = Len(tasks)
        /\ \A t, u \in TaskIds : t # u => (tasks'[t] = tasks[t] \/ tasks'[u] = tasks[u])
        /\ \A t \in TaskIds :
            tasks'[t] = tasks[t] => heap'[tasks[t].store] = heap[tasks[t].store]
        /\ \A t \in TaskIds : Finished(tasks[t]) => tasks'[t] = tasks[t]

\* whatever has become of its siblings, a task that waits for an answer can
\* take it
NeverCancelled ==
    BatchCall => \A t \in TaskIds : ~Finished(tasks[t]) => ENABLED RespondTo(t)

\* C3: in a loadDependencies batch, under every interleaving, a task's failure
\* or stall changes neither the record nor the store of a sibling and does not
\* keep it from finishing (a task whose requests are answered finishes, whether
\* or not the others' are); the result is delivered only after every task has
\* finished, and is delivered when every request is answered.
C3_TasksIsolated ==
    /\ []DeliveredAfterAll
    /\ [][SiblingsUntouched]_vars
    /\ []NeverCancelled
    /\ \A t \in 1..MaxReq :
          WF_vars(RespondTo(t)) => [](BatchCall /\ t \in TaskIds => <>FinishedTask(t))
    /\ (\A t \in 1..MaxReq : WF_vars(RespondTo(t))) =>
          ((BatchCall /\ call.state = "running") ~> (call.state = "resolved"))

\* a batch of two has returned whose first task failed on a request and whose
\* second task took answers after that and loaded its package
C3_Witness ==
    /\ BatchCall /\ call.state = "resolved"
    /\ Len(tasks) = 2 /\ settled = <<1, 2>>
    /\ Failed(1) /\ tasks[1].reqs # <<>>
    /\ tasks[2].pc = "done" /\ Len(tasks[2].reqs) > 1

\* a loadDependency call returns in this step: S is the store it was given, k the
\* number of S's children, new the store it made for the package
LoadDependencyReturns ==
    /\ call'.op = "loadDependency" /\ call'.state = "resolved"
    /\ call.state = "running" \/ budget' # budget

ReturnsAsDocumented ==
    LET S == call'.target
        new == tasks'[1].store
        before == 1..Len(heap)
        k == IF S \in before THEN Len(heap[S].children) ELSE 0
    IN /\ Len(tasks') = 1 /\ tasks'[1].op = "mergeDependency" /\ tasks'[1].merged
       /\ heap'[new] = Merge(tasks'[1].loaded, EmptyStore)
       /\ IF k >= 1
          THEN /\ call'.result = S
               /\ heap'[S] = [heap[S] EXCEPT !.children = Append(@, new)]
          ELSE /\ heap'[S] = IF S \in before THEN heap[S] ELSE EmptyStore
               /\ call'.result \notin before \cup {S, new}
               /\ heap'[call'.result] = [EmptyStore EXCEPT !.children = <<S, new>>]

\* loadDependency makes a new store for mergeDependency, which stays empty until
\* the package is merged into it
MergesIntoEmptyStore ==
    /\ (budget' # budget /\ call'.op = "loadDependency") =>
            /\ Len(tasks') = 1
            /\ tasks'[1].store \notin 1..Len(heap)
    /\ (call'.op = "loadDependency" /\ ~tasks'[1].merged) =>
            heap'[tasks'[1].store] = EmptyStore

\* C4: a loadDependency(name, version, S) that succeeds on an S with k >= 1
\* children returns S itself with k+1 children, the package's new store last;
\* on an S without children it leaves S as it is and returns a new wrapper whose
\* children are [S, new store]; mergeDependency is called once, on an empty store.
C4_LoadDependencyAttaches ==
    [][MergesIntoEmptyStore /\ (LoadDependencyReturns => ReturnsAsDocumented)]_vars

\* a loadDependency call has returned the store it was given, which had two
\* children and has three now
C4_Witness ==
    /\ call.op = "loadDependency" /\ call.state = "resolved"
    /\ call.result = call.target
    /\ Len(heap[call.target].children) = 3
    /\ heap[call.target].children[3] = tasks[1].store

\* ------------------------------------------------- properties: mergeDependency

MergeTask(t) == t \in TaskIds /\ tasks[t].op = "mergeDependency"

\* the errors of version resolution and of the build listing, which are not
\* failures to obtain a package that was looked for
ResolutionErrors ==
    {"IncorrectWildcardVersionFormatError", "LatestVersionUnavailableError",
     "CurrentPackageLoadError"}

\* C5: a mergeDependency that cannot obtain the package locally or from any
\* source (a failing custom-registry metadata request, tarball request or
\* extraction included) fails with PackageLoadError, which carries the custom
\* registry whenever one is configured; mergeDependency never returns normally
\* without having merged a loaded package into the store.
C5_FailsWithPackageLoadError ==
    \A t \in TaskIds : MergeTask(t) =>
        /\ tasks[t].pc = "done" =>
            /\ tasks[t].merged /\ tasks[t].loaded # NoPackage
            /\ heap[tasks[t].store].own # <<>>
        /\ (Failed(t) /\ tasks[t].err.kind \notin ResolutionErrors) =>
            /\ tasks[t].err.kind = "PackageLoadError"
            /\ env # Null => tasks[t].err.reg = env

\* a call of loadDependency or loadDependencies on one request starts in this
\* step, and with it one mergeDependency
MergeCalled ==
    /\ budget' # budget
    /\ call'.op \in {"loadDependency", "loadDependencies"}
    /\ Len(tasks') = 1

\* loadFromPath(cachePath, name#version), called now
Direct(name, version) ==
    LoadFromPath(Ctx(NewTask("none", "none", name, version, 0)), Key(name, version)).tk.loaded

\* the cache holds a directory for name#version, or the PackageCache its record
Present(name, version) ==
    DirExists(disk, Key(name, version)) \/ PcContains(pcache, Key(name, version))

\* mergeDependency made no request and its store is what merging `pkg` into an
\* empty store gives
LoadedOffline(pkg) ==
    /\ tasks'[1].reqs = <<>>
    /\ tasks'[1].pc = "done"
    /\ heap'[tasks'[1].store] = Merge(pkg, EmptyStore)

\* a version that names one package for good: not `latest`, not a wildcard, not
\* `current` or `current$branch`
FixedVersion(v) ==
    /\ v # VLatest /\ ~IsPatchWildcard(v) /\ ~IsMinorWildcard(v)
    /\ ~IsCurrentVersion(v)

MinorWildcardCalled ==
    /\ budget' # budget
    /\ call'.op # "lookUpLatestVersion"
    /\ Len(call'.args) = 1 /\ VersionOf(call'.args[1]) = <<"1", ".", "x">>

\* C7: for a version <digits>.x, mergeDependency and lookUpLatestPatchVersion
\* fail with IncorrectWildcardVersionFormatError before any request is made, and
\* leave the target store and the caches as they were.
C7_MinorWildcardRejected ==
    [][ MinorWildcardCalled =>
          /\ Len(tasks') = 1
          /\ tasks'[1].pc = "failed"
          /\ tasks'[1].err.kind = "IncorrectWildcardVersionFormatError"
          /\ tasks'[1].err.pkg = call'.args[1]
          /\ tasks'[1].reqs = <<>>
          /\ disk' = disk /\ pcache' = pcache /\ lastUpdate' = lastUpdate
          /\ call'.op # "loadDependencies" =>
                call'.state = "rejected" /\ call'.err = tasks'[1].err
          /\ call'.op = "loadDependency" =>
                /\ heap'[tasks'[1].store] = EmptyStore
                /\ \A i \in 1..Len(heap) : heap'[i] = heap[i]
          /\ call'.op = "loadDependencies" =>
                /\ heap'[tasks'[1].store].own = <<>>
                /\ heap'[tasks'[1].store].children = <<>> ]_vars

\* a call with the version 1.x has been rejected
C7_Witness ==
    /\ call.state = "rejected"
    /\ call.err.kind = "IncorrectWildcardVersionFormatError"
    /\ VersionOf(call.args[1]) = VMinor
    /\ tasks[1].reqs = <<>>

\* the download requests of a task, in order
Downloads(t) == SelectSeq(tasks[t].reqs, LAMBDA r : r.rt = "arraybuffer")

ExpectedPrimary(name, version) ==
    <<"https://packages.fhir.org", "/">> \o name \o <<"/">> \o version
ExpectedSecondary(name, version) ==
    <<"https://packages2.fhir.org/packages", "/">> \o name \o <<"/">> \o version

\* task t passes from version resolution to the cache look-up in this step
Resolves(t) ==
    /\ t \in 1..Len(tasks') /\ tasks'[t].op = "mergeDependency"
    /\ tasks'[t].full # Null
    /\ budget' # budget \/ tasks[t].full = Null

\* an ordinary version that is not cached, without a custom registry: the first
\* request after resolution is the download from the primary registry
PrimaryFirst ==
    \A t \in 1..MaxReq :
        (/\ Resolves(t) /\ env = Null /\ IsSemVer(tasks'[t].version)
         /\ Direct(tasks'[t].name, tasks'[t].version) = NoPackage) =>
            /\ tasks'[t].pc = "dl1"
            /\ tasks'[t].reqs[Len(tasks'[t].reqs)] =
                   [url |-> ExpectedPrimary(tasks'[t].name, tasks'[t].version),
                    rt |-> "arraybuffer"]
            /\ tasks'[t].tries = <<>>

\* the download attempts of an ordinary version without a custom registry
SecondaryOnceAfterFailure ==
    \A t \in TaskIds :
        (MergeTask(t) /\ env = Null /\ IsSemVer(tasks[t].version)) =>
            LET dl == Downloads(t)
                tries == tasks[t].tries
                name == tasks[t].name
                version == tasks[t].version
            IN /\ Len(dl) <= 2 /\ Len(tries) <= Len(dl)
               /\ Len(dl) >= 1 => dl[1].url = ExpectedPrimary(name, version)
               /\ Len(dl) = 2 <=> (Len(tries) >= 1 /\ tries[1] = "threw")
               /\ Len(dl) = 2 => dl[2].url = ExpectedSecondary(name, version)
               /\ tries = <<"threw", "threw">> =>
                     Failed(t) /\ tasks[t].err.kind = "PackageLoadError"
               /\ (Len(tries) >= 1 /\ tries[1] = "nodata") =>
                     Len(dl) = 1 /\ Finished(tasks[t])

\* C8: for an uncached ordinary version without a custom registry, the first
\* download request goes to the primary registry URL; the secondary URL is
\* requested once and only after the primary attempt failed; there is no third
\* attempt; when both fail the call fails with PackageLoadError; a primary
\* response without data is no failure and triggers no retry.
C8_PrimaryThenSecondary ==
    [][PrimaryFirst]_vars /\ []SecondaryOnceAfterFailure

\* both registries were tried, in order, and the call failed
C8_Witness ==
    /\ env = Null /\ MergeTask(1) /\ Failed(1)
    /\ tasks[1].err.kind = "PackageLoadError"
    /\ tasks[1].tries = <<"threw", "threw">>
    /\ Downloads(1) =
          << [url |-> ExpectedPrimary(PkgA, V100), rt |-> "arraybuffer"],
             [url |-> ExpectedSecondary(PkgA, V100), rt |-> "arraybuffer"] >>

\* the configured registry, without its trailing slash
ExpectedRegistry ==
    IF env = <<"https://custom-registry.example.org", "/">>
    THEN <<"https://custom-registry.example.org">>
    ELSE env

DoubleSlash(url) == \E i \in 1..(Len(url) - 1) : url[i] = "/" /\ url[i + 1] = "/"

\* C9: with a custom registry and an uncached ordinary version, mergeDependency
\* issues two requests, in this order: a non-binary metadata GET to
\* customRegistry/name, then a binary GET to the tarball URL listed for the
\* version or, when none is listed, to customRegistry/name/version, and never a
\* third; no URL has a double slash from the registry's trailing slash.
C9_MetadataThenTarball ==
    \A t \in TaskIds :
        (MergeTask(t) /\ env # Null /\ IsSemVer(tasks[t].reqVersion)) =>
            LET reqs == tasks[t].reqs
                name == tasks[t].name
                version == tasks[t].version
            IN /\ Len(reqs) <= 2
               /\ Len(reqs) >= 1 =>
                     reqs[1] = [url |-> ExpectedRegistry \o <<"/">> \o name, rt |-> "none"]
               /\ Len(reqs) >= 2 =>
                     /\ reqs[2].rt = "arraybuffer"
                     /\ reqs[2].url \in Tarballs(name, version) \cup
                           {ExpectedRegistry \o <<"/">> \o name \o <<"/">> \o version}
                     /\ reqs[2].url # Null
               /\ \A i \in 1..Len(reqs) : ~DoubleSlash(reqs[i].url)
               /\ tasks[t].pc = "done" => Len(reqs) \in {0, 2}

\* C10: with a custom registry configured, no request of version resolution or
\* of the download of an ordinary version goes to the secondary registry,
\* whatever tarball URL the metadata announces and whichever request fails.
C10_CustomRegistryReplacesChain ==
    env # Null =>
        \A t \in TaskIds : \A i \in 1..Len(tasks[t].reqs) :
            tasks[t].reqs[i].url[1] # "https://packages2.fhir.org/packages"

\* ------------------------------------------------- properties: version look-up

LatestTask(t) == t \in TaskIds /\ tasks[t].op = "lookUpLatestVersion"

\* the answer task t received last
LastAnswer(t) == tasks[t].answers[Len(tasks[t].answers)]

\* a tag a registry reports: a non-empty `latest`
UsableTag(a) == a.ok /\ a.has /\ Len(a.body) > 0

\* C11: lookUpLatestVersion returns exactly the `latest` dist-tag of the registry
\* that answered, qualifier included, and fails with
\* LatestVersionUnavailableError when the request fails or the response has no
\* non-empty `latest` tag; a mergeDependency of `latest` goes on with that tag.
C11_LatestIsTheTag ==
    \A t \in TaskIds :
        /\ (LatestTask(t) /\ Finished(tasks[t])) =>
            /\ tasks[t].answers # <<>>
            /\ IF UsableTag(LastAnswer(t))
               THEN /\ tasks[t].pc = "done"
                    /\ tasks[t].version = LastAnswer(t).body
                    /\ call.state = "resolved" /\ call.version = LastAnswer(t).body
               ELSE /\ tasks[t].pc = "failed"
                    /\ tasks[t].err = LatestVersionUnavailableError(tasks[t].name, env, FALSE)
                    /\ call.state = "rejected" /\ call.err = tasks[t].err
        /\ (LatestTask(t) /\ ~Finished(tasks[t]) /\ tasks[t].answers # <<>>) =>
            ~LastAnswer(t).ok
        /\ (MergeTask(t) /\ tasks[t].reqVersion = VLatest /\ tasks[t].answers # <<>>
               /\ tasks[t].pc \notin {"latest1", "latest2"}) =>
            IF UsableTag(LastAnswer(t))
            THEN tasks[t].version = LastAnswer(t).body /\ tasks[t].full # Null
            ELSE /\ tasks[t].pc = "failed"
                 /\ tasks[t].err = LatestVersionUnavailableError(tasks[t].name, env, FALSE)

\* the secondary registry answered the tag 1.0.2-t, and the look-up returned it
C11_Witness ==
    /\ LatestTask(1) /\ call.state = "resolved"
    /\ Len(tasks[1].answers) = 2
    /\ call.version = V102t

\* the metadata requests of task t's version look-up, in order
LookUps(t) == SelectSeq(tasks[t].reqs, LAMBDA r : r.rt = "json")

ExpectedPrimaryMeta(name) == <<"https://packages.fhir.org", "/">> \o name
ExpectedSecondaryMeta(name) == <<"https://packages2.fhir.org/packages", "/">> \o name

\* task t looks a version up, or has
LooksUp(t) ==
    /\ t \in TaskIds
    /\ \/ tasks[t].op = "lookUpLatestVersion"
       \/ tasks[t].op = "mergeDependency" /\ tasks[t].reqVersion = VLatest
       \/ IsPatchWildcard(tasks[t].reqVersion)

\* C12: in lookUpLatestVersion and lookUpLatestPatchVersion, without a custom
\* registry the first request goes to the primary registry and the secondary is
\* queried if and only if that request failed (never when the primary answered,
\* usable body or not); with a custom registry one request is made, to the
\* custom registry, and none after it.
C12_SecondaryOnlyAfterFailure ==
    \A t \in TaskIds : LooksUp(t) =>
        LET lk == LookUps(t)
            ans == tasks[t].answers
            name == tasks[t].name
        IN /\ Len(lk) = 1 \/ Len(lk) = 2
           /\ Len(ans) <= Len(lk)
           /\ env = Null =>
                /\ lk[1].url = ExpectedPrimaryMeta(name)
                /\ Len(lk) = 2 <=> (Len(ans) >= 1 /\ ~ans[1].ok)
                /\ Len(lk) = 2 => lk[2].url = ExpectedSecondaryMeta(name)
           /\ env # Null =>
                /\ Len(lk) = 1
                /\ lk[1].url = ExpectedRegistry \o <<"/">> \o name

\* without a custom registry, the primary answered a patch look-up with a body
\* that lists no versions: the look-up failed and the secondary was not asked
C12_Witness ==
    /\ env = Null /\ call.op = "lookUpLatestPatchVersion" /\ call.state = "rejected"
    /\ tasks[1].answers = <<[ok |-> TRUE, has |-> FALSE, body |-> <<>>]>>
    /\ Len(tasks[1].reqs) = 1

\* task t's look-up follows the chain of registries `chain` (metadata URLs, in
\* order): it asks them in that order, goes on to the next exactly when a
\* request failed, and stops at the first answer
FollowsChain(t, chain) ==
    LET lk == LookUps(t)
        ans == tasks[t].answers
    IN /\ Len(lk) <= Len(chain)
       /\ \A i \in 1..Len(lk) : lk[i].url = chain[i]
       /\ \A i \in 1..Len(ans) :
            /\ ans[i].ok => Len(lk) = i
            /\ (~ans[i].ok /\ i < Len(chain)) => Len(lk) > i
       /\ (Failed(t) /\ ~LastAnswer(t).ok) => Len(ans) = Len(chain)

\* C13 as stated: the look-ups ask the custom registry (if configured), then the
\* primary, then the secondary, stopping at the first success; when the custom
\* registry's request fails, the primary and then the secondary are queried
\* before the look-up fails.
C13_CustomThenPrimaryThenSecondary ==
    \A t \in TaskIds : LooksUp(t) =>
        FollowsChain(t, (IF env # Null THEN <<ExpectedRegistry \o <<"/">> \o tasks[t].name>>
                         ELSE <<>>)
                        \o <<ExpectedPrimaryMeta(tasks[t].name),
                             ExpectedSecondaryMeta(tasks[t].name)>>)

\* C13 amended: with a custom registry configured the look-ups ask the custom
\* registry alone, and fail when its request fails, without querying the primary
\* or the secondary; without one they ask the primary and then, only when that
\* request failed, the secondary, stopping at the first answer.
C13_CustomOrPrimaryThenSecondary ==
    \A t \in TaskIds : LooksUp(t) =>
        /\ FollowsChain(t, IF env # Null
                           THEN <<ExpectedRegistry \o <<"/">> \o tasks[t].name>>
                           ELSE <<ExpectedPrimaryMeta(tasks[t].name),
                                  ExpectedSecondaryMeta(tasks[t].name)>>)
        /\ (env # Null /\ tasks[t].answers # <<>> /\ ~tasks[t].answers[1].ok) =>
              /\ Failed(t)
              /\ tasks[t].err.kind = "LatestVersionUnavailableError"
              /\ tasks[t].err.reg = env

\* the custom registry's only request failed, and the look-up with it
C13_Witness ==
    /\ env = <<CustomHost, "/">> /\ call.op = "lookUpLatestVersion" /\ call.state = "rejected"
    /\ tasks[1].answers = <<[ok |-> FALSE, has |-> FALSE, body |-> Null]>>
    /\ Len(tasks[1].reqs) = 1

PatchTask(t) ==
    /\ t \in TaskIds /\ IsPatchWildcard(tasks[t].reqVersion)
    /\ tasks[t].op \in {"lookUpLatestPatchVersion", "mergeDependency"}

\* the X.Y. of a version X.Y.Z or of a range X.Y.x
MajorMinor(v) ==
    LET i == IndexOf(v, ".")
        rest == SubSeq(v, i + 1, Len(v))
    IN SubSeq(v, 1, i + IndexOf(rest, "."))

\* v is a release X.Y.Z, without qualifier, with the X and Y of the range X.Y.x
InPatchRange(v, range) ==
    /\ \A i \in 1..Len(v) : v[i] \in Digits \cup {"."}
    /\ IsSemVer(v)
    /\ MajorMinor(v) = MajorMinor(range)

\* the versions of a listing that are in the range
Candidates(listing, range) ==
    {v \in {listing[i] : i \in 1..Len(listing)} : InPatchRange(v, range)}

\* C14: lookUpLatestPatchVersion(name, X.Y.x) returns the highest version of the
\* registry's listing that has major X and minor Y and no pre-release / build
\* qualifier; it fails with LatestVersionUnavailableError (for a patch version)
\* when the request fails, the response lists no versions, or no listed version
\* is in the range.
C14_HighestPatchRelease ==
    \A t \in TaskIds :
        (PatchTask(t) /\ tasks[t].answers # <<>>
            /\ tasks[t].pc \notin {"patch1", "patch2"}) =>
            LET a == LastAnswer(t)
                range == tasks[t].reqVersion
                cands == IF a.ok /\ a.has THEN Candidates(a.body, range) ELSE {}
            IN IF cands = {}
               THEN /\ Failed(t)
                    /\ tasks[t].err = LatestVersionUnavailableError(tasks[t].name, env, TRUE)
               ELSE /\ tasks[t].version \in cands
                    /\ \A w \in cands : SemVer(w).patch <= SemVer(tasks[t].version).patch
                    /\ tasks[t].op = "lookUpLatestPatchVersion" =>
                          /\ tasks[t].pc = "done"
                          /\ call.state = "resolved" /\ call.version = tasks[t].version

\* 1.0.1 was returned for 1.0.x from a listing that also has 1.0.0, 1.0.2-t and
\* 1.1.0
C14_Witness ==
    /\ call.op = "lookUpLatestPatchVersion" /\ call.state = "resolved"
    /\ LastAnswer(1).has /\ Len(LastAnswer(1).body) = 4
    /\ call.version = V101

\* ------------------------------------------------ properties: current builds

\* task t is a mergeDependency that resolves `current` or `current$branch` of a
\* package outside hl7.fhir.r5. (a `dev` request that fell back included)
CurrentTask(t) ==
    /\ MergeTask(t) /\ tasks[t].full # Null
    /\ IsCurrentVersion(tasks[t].version)
    /\ ~StartsWith(tasks[t].name, R5Prefix)

ExpectedQasUrl == <<"https://build.fhir.org", "/", "ig", "/", "qas.json">>

\* the branch of a listing entry's repo <org>/branches/<branch>/qa.json
RepoBranch(repo) == SubSeq(repo, 5, Len(repo) - 2)

\* the entries of a listing that are builds of `name` on the requested branch
Eligible(listing, name, version) ==
    {i \in 1..Len(listing) :
        /\ listing[i].id = name
        /\ IF version = <<"current">>
           THEN RepoBranch(listing[i].repo) \in {<<"main">>, <<"master">>}
           ELSE RepoBranch(listing[i].repo) = SubSeq(version, 3, Len(version))}

\* the URL of the build that a listing entry describes
BuildUrl(e) ==
    <<"https://build.fhir.org", "/", "ig", "/">> \o SubSeq(e.repo, 1, Len(e.repo) - 2)

ManifestAnswered(t) ==
    /\ t \in TaskIds /\ t \in 1..Len(tasks')
    /\ tasks[t].pc = "manifest" /\ tasks'[t].pc # "manifest"
    /\ Len(tasks'[t].answers) = 2 /\ tasks'[t].answers[2].ok

\* C16: for a `current` request of a non-R5 package that has a matching build,
\* the download of the build's package.tgz is scheduled if and only if nothing
\* is cached for the package or the cached package's date differs from the
\* manifest's; when the dates are equal two requests are made (listing,
\* manifest), none for a download, and the cached package is used.
C16_DownloadIffStale ==
    [][ \A t \in 1..MaxReq :
          (ManifestAnswered(t) /\ CurrentTask(t) /\ IsCurrentVersion(tasks[t].reqVersion)) =>
              LET key == Key(tasks[t].name, tasks[t].version)
                  manifest == tasks'[t].answers[2]
                  cached == DirExists(disk, key)
                  stale == ~cached \/ ~manifest.has \/ DirEntry(disk, key).date # manifest.body
              IN IF stale
                 THEN /\ tasks'[t].pc = "dl1"
                      /\ Len(tasks'[t].reqs) = 3
                      /\ tasks'[t].reqs[3] =
                            [url |-> tasks[t].igUrl \o <<"/", "package.tgz">>,
                             rt |-> "arraybuffer"]
                 ELSE /\ tasks'[t].pc = "done"
                      /\ Len(tasks'[t].reqs) = 2
                      /\ heap'[tasks[t].store].own =
                            <<[package |-> key, gen |-> DirEntry(disk, key).gen]>> ]_vars

\* pkg#current was cached with the date of the build's manifest: it was used
\* after two requests
C16_Witness ==
    /\ CurrentTask(1) /\ tasks[1].reqVersion = VCurrent /\ tasks[1].pc = "done"
    /\ Len(tasks[1].reqs) = 2 /\ Len(tasks[1].answers) = 2
    /\ tasks[1].answers[2].body = OldGen

R5CurrentTask(t) ==
    /\ MergeTask(t) /\ tasks[t].full # Null
    /\ tasks[t].version = <<"current">>
    /\ Len(tasks[t].name) >= 6
    /\ SubSeq(tasks[t].name, 1, 6) = <<"hl7", ".", "fhir", ".", "r5", ".">>

\* C18: a `current` request for a package whose name starts with hl7.fhir.r5.
\* never asks for the build listing or a manifest, and always issues one
\* download from https://build.fhir.org/<name>.tgz, cached or not.
C18_R5CurrentAlwaysDownloads ==
    \A t \in TaskIds : R5CurrentTask(t) =>
        tasks[t].reqs =
            << [url |-> <<"https://build.fhir.org", "/">> \o tasks[t].name \o <<".tgz">>,
                rt |-> "arraybuffer"] >>

\* hl7.fhir.r5.core#current is in the cache, and its download has been requested
C18_Witness ==
    /\ R5CurrentTask(1) /\ tasks[1].pc = "dl1"
    /\ DirExists(disk, Key(R5Core, VCurrent))
    /\ tasks[1].loaded # NoPackage

\* ------------------------------------------------------- properties: dev

\* what a step of mergeDependency leaves behind, apart from what was asked for
Outcome(tk) ==
    [pc |-> tk.pc, version |-> tk.version, full |-> tk.full, loaded |-> tk.loaded,
     purl |-> tk.purl, igUrl |-> tk.igUrl, reqs |-> tk.reqs, err |-> tk.err,
     merged |-> tk.merged]

\* a call of mergeDependency for name#dev, alone, starts in this step
DevCalled ==
    /\ MergeCalled
    /\ tasks'[1].op = "mergeDependency" /\ tasks'[1].reqVersion = <<"dev">>

\* the same call made for name#current, in the same state
AsCurrentCall ==
    AfterStep(MergeDependency(
                 [Ctx(NewTask("mergeDependency", tasks'[1].caller, tasks'[1].reqName,
                              <<"current">>, tasks'[1].store))
                     EXCEPT !.heap = [heap' EXCEPT ![tasks'[1].store] = EmptyStore]]),
              [call' EXCEPT !.state = "running"]).c

\* the manifest of the build is answered to a `dev` request in this step
DevManifestAnswered ==
    /\ ManifestAnswered(1)
    /\ tasks[1].op = "mergeDependency" /\ tasks[1].reqVersion = <<"dev">>

\* the same answer given to the same request made for name#current
AsCurrentAnswer ==
    LET a == tasks'[1].answers[2]
        tk == [tasks[1] EXCEPT !.loadPath = Key(tasks[1].name, <<"current">>)]
    IN AfterStep(OnManifestResponse(Ctx(tk), a.ok, a.body), call).c

\* C19: a `dev` request whose name#dev entry is cached makes no network request
\* and loads that entry; a `dev` request without one behaves as the `current`
\* request for the package does in the same state: the same requests, the same
\* cache key, the same store (so no download when name#current is cached and up
\* to date).
C19_DevFallsBackToCurrent ==
    [][ /\ DevCalled =>
             IF Present(tasks'[1].reqName, <<"dev">>)
             THEN /\ tasks'[1].reqs = <<>> /\ tasks'[1].pc = "done"
                  /\ tasks'[1].full = Key(tasks'[1].reqName, <<"dev">>)
                  /\ heap'[tasks'[1].store].package = tasks'[1].full
             ELSE /\ Outcome(tasks'[1]) = Outcome(AsCurrentCall.tk)
                  /\ tasks'[1].full = Key(tasks'[1].reqName, <<"current">>)
                  /\ disk' = AsCurrentCall.disk
                  /\ heap'[tasks'[1].store] = AsCurrentCall.heap[tasks'[1].store]
        /\ DevManifestAnswered =>
             /\ Outcome(tasks'[1]) = Outcome(AsCurrentAnswer.tk)
             /\ heap'[tasks'[1].store] = AsCurrentAnswer.heap[tasks'[1].store] ]_vars

\* pkg#dev was not cached: the request went on as pkg#current and asked for the
\* build's manifest
C19_Witness ==
    /\ MergeTask(1) /\ tasks[1].reqVersion = VDev /\ tasks[1].version = VCurrent
    /\ tasks[1].pc = "manifest"

\* ------------------------------------------------- properties: cache directory

\* a download attempt of some task ends in this step
DownloadEnds ==
    \E t \in TaskIds : t \in 1..Len(tasks') /\ Len(tasks'[t].tries) > Len(tasks[t].tries)

\* C20: the replacement of a cache entry is atomic: whatever step of a download
\* fails, a directory that was in the cache is still there afterwards, with its
\* previous content or with the complete new one, and the cache changes only
\* when a download attempt ends.
C20_ReplacementIsAtomic ==
    [][ /\ \A e \in disk : \E f \in disk' :
              f.dir = e.dir /\ (f = e \/ (f.gen = <<"new">> /\ f.date = <<"new">>))
        /\ disk' # disk => DownloadEnds ]_vars

\* a cached package has been replaced by a newly downloaded one
C20_Witness ==
    /\ MergeTask(1) /\ tasks[1].pc = "done" /\ tasks[1].tries = <<"ok">>
    /\ disk = {[dir |-> tasks[1].full, gen |-> NewGen, date |-> NewGen]}

\* ------------------------------------------------ properties: temporary files

\* a download was attempted by a task of the call, and the call is over
DownloadAttemptedAndOver ==
    /\ call.state \in {"resolved", "rejected"}
    /\ \E t \in TaskIds : tasks[t].tries # <<>>

\* C21: after every mergeDependency call that attempted a download, whether it
\* returned or failed at any step, the temporary file and the temporary
\* directory of the download no longer exist as temporary resources.
C21_TemporariesReleased ==
    DownloadAttemptedAndOver => temps = {}

\* ------------------------------------------ properties: cleanCachedPackage

\* the step is a cleanCachedPackage call
CleanCalled == Len(renamed') > Len(renamed)

HasPackageFolder(d) == "package" \in d.top

\* C22 (as stated): if the directory already has a `package/` subdirectory
\* nothing is moved; otherwise every top-level entry is moved, under the same
\* name, into a newly created `package/` subdirectory.
C22_NestsWhenNoPackageFolder ==
    [][CleanCalled =>
          IF HasPackageFolder(packageDirectory)
          THEN packageDirectory' = packageDirectory
          ELSE packageDirectory' = [top |-> {"package"}, inner |-> packageDirectory.top]]_vars

\* C22 (amended): if the directory has a `package/` subdirectory, every other
\* top-level entry is moved into it under the same name and what the folder
\* held stays; otherwise nothing is moved and no `package/` subdirectory is
\* created.
C22_NestsWhenPackageFolder ==
    [][CleanCalled =>
          IF HasPackageFolder(packageDirectory)
          THEN /\ packageDirectory'.top = {"package"}
               /\ packageDirectory'.inner =
                      packageDirectory.inner \cup (packageDirectory.top \ {"package"})
          ELSE packageDirectory' = packageDirectory]_vars

\* a folder and a file were moved into the "package" folder next to the file it
\* held
C22_Witness ==
    /\ Len(renamed) = 1
    /\ packageDirectory = [top |-> {"package"},
                           inner |-> {"other", "StructureDefinition-MyPatient.json",
                                      "package.json"}]
    /\ renamed[1] = {"other", "StructureDefinition-MyPatient.json"}

\* C23: on a directory that has a `package` folder cleanCachedPackage renames
\* every other top-level entry into it, once each and never `package` itself;
\* without a `package` folder, or with `package` as the only entry, it renames
\* nothing; applying it twice has the same effect as applying it once.
C23_OneRenamePerSibling ==
    [][CleanCalled =>
          LET calls == renamed'[Len(renamed')]
              once == CleanCachedPackage(packageDirectory).dir
          IN /\ "package" \notin calls
             /\ HasPackageFolder(packageDirectory) =>
                    calls = packageDirectory.top \ {"package"}
             /\ (~HasPackageFolder(packageDirectory)
                    \/ packageDirectory.top = {"package"}) => calls = {}
             /\ packageDirectory' = once
             /\ CleanCachedPackage(once) = [dir |-> once, renames |-> {}]]_vars

\* the first call renamed the two siblings of `package`, the second nothing
C23_Witness ==
    /\ Len(renamed) = 2
    /\ renamed[1] = {"other", "StructureDefinition-MyPatient.json"}
    /\ renamed[2] = {}
    /\ packageDirectory.top = {"package"}

\* ------------------------------------------------ properties: PackageCache

\* what loadFromPath last returned to each task is the record the PackageCache
\* holds for the key it was asked for, and no absence is held
ReturnedIsMemoized ==
    /\ \A e \in pcache : e.val # NoPackage /\ e.val.package = e.key
    /\ \A e, f \in pcache : e.key = f.key => e = f
    /\ \A t \in TaskIds :
          tasks[t].loaded # NoPackage =>
              /\ PcContains(pcache, tasks[t].full)
              /\ tasks[t].loaded = PcGet(pcache, tasks[t].full)

ReportedAbsent(t) ==
    /\ MergeTask(t) /\ tasks[t].version = V100
    /\ tasks[t].pc = "dl1" /\ tasks[t].tries = <<>>

MatchesIgnoringCase(dir, key) == ToLowerCase(dir) = ToLowerCase(key)

\* C25: loadFromPath matches the cache directory case-insensitively, whatever
\* the letter case of the key or of the directory name: absence is reported
\* only when no directory equals the key ignoring case.
C25_FoundIgnoringCase ==
    \A t \in TaskIds :
        ReportedAbsent(t) =>
            ~\E e \in disk : MatchesIgnoringCase(e.dir, tasks[t].full)

\* ------------------------------------------- properties: stale current builds

\* the one download attempt of a `current` request ended without anything
\* being written (no data came, or the request failed), and the package it is
\* for is in the cache as it was when the process started
NewerBuildNotObtained(t) ==
    /\ CurrentTask(t)
    /\ Len(tasks[t].tries) = 1 /\ tasks[t].tries[1] \in {"nodata", "threw"}
    /\ temps = {}
    /\ DirExists(disk, tasks[t].full)
    /\ DirEntry(disk, tasks[t].full).gen = OldGen

\* C26: when a `current` package is cached but out of date and the newer build
\* cannot be obtained (the download returns no data or the request fails),
\* mergeDependency succeeds with the locally cached package and nothing is
\* written, extracted, removed or moved in the cache.
C26_StaleCurrentFallsBack ==
    \A t \in TaskIds :
        NewerBuildNotObtained(t) =>
            /\ tasks[t].pc = "done" /\ tasks[t].merged
            /\ tasks[t].loaded = [package |-> tasks[t].full, gen |-> OldGen]

\* ------------------------------------------------------ properties: stores

Stores == 1..Len(heap)

ChildrenOf(s) == {heap[s].children[i] : i \in 1..Len(heap[s].children)}

\* C27: after any sequence of loadDependencies and loadDependency calls, no
\* store both holds definitions of its own and has children.
C27_OwnOrChildren ==
    \A s \in Stores : heap[s].own = <<>> \/ heap[s].children = <<>>

\* a store that holds a package was wrapped by one loadDependency call, and a
\* second call on the wrapper it returned added a third child to it
C27_Witness ==
    /\ call.op = "loadDependency" /\ call.state = "resolved"
    /\ call.result \in Stores
    /\ Len(heap[call.result].children) = 3
    /\ \A s \in ChildrenOf(call.result) : heap[s].own # <<>>

\* the stores reached from s through at most n child links
RECURSIVE Below(_, _)
Below(S, n) ==
    IF n = 0 THEN {}
    ELSE LET kids == UNION {ChildrenOf(s) : s \in S}
         IN kids \cup Below(kids, n - 1)

\* C28: after any sequence of loadDependencies and loadDependency calls,
\* including calls that pass again a store already passed to an earlier
\* loadDependency, the stores form a strict tree: no store is a child of two
\* parents, none appears twice in a child list, none is its own descendant.
C28_StrictTree ==
    /\ \A p, q \in Stores : p # q => ChildrenOf(p) \cap ChildrenOf(q) = {}
    /\ \A p \in Stores : Cardinality(ChildrenOf(p)) = Len(heap[p].children)
    /\ \A s \in Stores : s \notin Below({s}, Len(heap))

\* ------------------------------------------------- properties: fishForFHIR

\* the categories a call goes through, in order
TypesOf(f) == IF f.types = <<>> THEN FishingOrder ELSE f.types

\* the place of a category in that order (0: not in it)
PlaceOf(f, type) == IndexOf(TypesOf(f), type)

\* definition d is one the call's key names, in a category the call goes through
Named(f, d) ==
    /\ PlaceOf(f, d.type) # 0
    /\ SplitItem(f.item).key \in {d.id, d.name, d.url}
    /\ SplitItem(f.item).version \in {<<>>, d.version}

StoresOf(tree) == 1..Len(tree)

\* C29 (as stated): the definition fishForFHIR returns belongs to the earliest
\* category of the caller's list (of the default order Resource, Logical,
\* Type, Profile, Extension, ValueSet, CodeSystem, Instance when none is given)
\* that has a match.
C29_EarliestCategoryWins ==
    \A k \in 1..Len(fished) :
        LET f == fished[k]
        IN f.def # NoDefinition =>
              \A s \in StoresOf(defsTree) : \A d \in defsTree[s].own :
                  Named(f, d) => PlaceOf(f, f.def.type) <= PlaceOf(f, d.type)

\* C29 (amended): the definition returned is taken from the first store, in
\* search order, in which the key names a definition of a listed category, and
\* belongs to the earliest category of the caller's list (of the default order
\* when none is given) that has a match in that store.
C29_EarliestCategoryOfFirstStoreWins ==
    \A k \in 1..Len(fished) :
        LET f == fished[k]
            with == {s \in StoresOf(defsTree) : \E d \in defsTree[s].own : Named(f, d)}
        IN IF with = {} THEN f.def = NoDefinition
           ELSE LET first == CHOOSE s \in with : \A t \in with : s <= t
                IN /\ f.def \in defsTree[first].own /\ Named(f, f.def)
                   /\ \A d \in defsTree[first].own :
                         Named(f, d) => PlaceOf(f, f.def.type) <= PlaceOf(f, d.type)

\* a store holds the value set and the code system of the same id: asked for
\* with no categories the value set was returned
C29_Witness ==
    /\ Len(defsTree) = 1
    /\ {AllergyValueSet, AllergyCodeSystem} \subseteq defsTree[1].own
    /\ fished = <<[item |-> AllergyValueSet.id, types |-> <<>>, def |-> AllergyValueSet]>>

\* C30: whenever categories are passed to fishForFHIR the definition returned,
\* if any, belongs to one of them, and the lookup returns undefined when every
\* definition the key names by id, name or url, anywhere in the tree, belongs
\* to a category that was not requested.
C30_OnlyRequestedCategories ==
    \A k \in 1..Len(fished) :
        LET f == fished[k]
            named == {d \in UNION {defsTree[s].own : s \in StoresOf(defsTree)} :
                         SplitItem(f.item).key \in {d.id, d.name, d.url}}
        IN f.types # <<>> =>
              /\ f.def # NoDefinition => \E i \in 1..Len(f.types) : f.types[i] = f.def.type
              /\ (\A d \in named : \A i \in 1..Len(f.types) : f.types[i] # d.type)
                    => f.def = NoDefinition

\* Condition is a resource of a child store; asked for as a logical model, a
\* type, an extension, a value set or an instance, nothing was returned
C30_Witness ==
    /\ Len(defsTree) = 3 /\ Condition \in defsTree[3].own
    /\ fished = <<[item |-> Condition.id,
                   types |-> <<"Logical", "Type", "Extension", "ValueSet", "Instance">>,
                   def |-> NoDefinition]>>

\* the store whose child s is (0: none), and how deep s lies below the root
ParentOf(s) ==
    IF \E q \in StoresOf(defsTree) :
          \E i \in 1..Len(defsTree[q].children) : defsTree[q].children[i] = s
    THEN CHOOSE q \in StoresOf(defsTree) :
            \E i \in 1..Len(defsTree[q].children) : defsTree[q].children[i] = s
    ELSE 0

RECURSIVE DepthOf(_)
DepthOf(s) == IF ParentOf(s) = 0 THEN 0 ELSE 1 + DepthOf(ParentOf(s))

\* C31: fishForFHIR finds a definition at the current node before looking at
\* any child and searches the descendants level by level in insertion order: a
\* match at depth d is returned in preference to any match at a greater depth,
\* even when the deeper match lies under an earlier sibling.
C31_ShallowestMatchWins ==
    \A k \in 1..Len(fished) :
        LET f == fished[k]
            with == {s \in StoresOf(defsTree) : \E d \in defsTree[s].own : Named(f, d)}
            nearest == {s \in with : \A t \in with : DepthOf(s) <= DepthOf(t)}
        IN IF with = {} THEN f.def = NoDefinition
           ELSE /\ Named(f, f.def)
                /\ f.def \in defsTree[CHOOSE s \in nearest : \A t \in nearest : s <= t].own

\* the first child holds no Condition and its child that of package3, the second
\* child that of package2: the Condition of package2 was returned
C31_Witness ==
    /\ Len(defsTree) = 4
    /\ defsTree[1].own = {} /\ defsTree[2].own = {}
    /\ defsTree[3].own = {[Condition EXCEPT !.version = <<"4.0.2">>]}
    /\ defsTree[4].own = {[Condition EXCEPT !.version = <<"4.0.3">>]}
    /\ fished = <<[item |-> Condition.id, types |-> <<"Resource">>,
                   def |-> [Condition EXCEPT !.version = <<"4.0.2">>]]>>

\* the lookup string is a key of definition d, the separator and d's version
AsksFor(item, d) ==
    \E key \in {d.id, d.name, d.url} : item = key \o <<"|">> \o d.version

AllOwn == UNION {defsTree[s].own : s \in StoresOf(defsTree)}

\* C32: a versioned query `key|version` returns only a definition whose own
\* version equals the requested version exactly, also when that version holds
\* the separator; it returns undefined when no definition the key names has
\* that version, and a definition without a version is never returned.
C32_VersionMatchesExactly ==
    \A k \in 1..Len(fished) :
        LET f == fished[k]
        IN IndexOf(f.item, "|") # 0 =>
              /\ f.def # NoDefinition => (f.def.version # <<>> /\ AsksFor(f.item, f.def))
              /\ (\A d \in AllOwn : ~AsksFor(f.item, d)) => f.def = NoDefinition

\* `SimpleProfile|1.0.0|a` found the profile of version `1.0.0|a` in a store
\* that also holds the profile without a version
C32_Witness ==
    /\ Len(defsTree) = 1 /\ Cardinality(defsTree[1].own) >= 2
    /\ Len(fished) = 1
    /\ fished[1].item = <<"SimpleProfile", "|", "1.0.0", "|", "a">>
    /\ fished[1].def.id = <<"SimpleProfile">>
    /\ fished[1].def.version = <<"1.0.0", "|", "a">>

\* the lookup string up to its last separator, and what follows it
RECURSIVE LastIndexOf(_, _)
LastIndexOf(s, c) ==
    IF s = <<>> THEN 0
    ELSE IF s[Len(s)] = c THEN Len(s)
    ELSE LastIndexOf(SubSeq(s, 1, Len(s) - 1), c)

\* the call behaved as one that takes the lookup string up to place i for the
\* key and what follows place i for the version
SplitAt(f, i) ==
    LET key == SubSeq(f.item, 1, i - 1)
        version == SubSeq(f.item, i + 1, Len(f.item))
        asked == {d \in AllOwn : /\ PlaceOf(f, d.type) # 0
                                 /\ key \in {d.id, d.name, d.url}
                                 /\ d.version = version}
    IN IF asked = {} THEN f.def = NoDefinition ELSE f.def \in asked

\* C33 (as stated): fishForFHIR splits its lookup string at the last
\* occurrence of the separator: what is before it is the key, what is after it
\* the requested version.
C33_SplitsAtLastSeparator ==
    \A k \in 1..Len(fished) :
        LastIndexOf(fished[k].item, "|") # 0 =>
            SplitAt(fished[k], LastIndexOf(fished[k].item, "|"))

\* C33 (amended): fishForFHIR splits its lookup string at the first occurrence
\* of the separator: what is before it is the key, and everything after it,
\* further separators included, is the requested version.
C33_SplitsAtFirstSeparator ==
    \A k \in 1..Len(fished) :
        IndexOf(fished[k].item, "|") # 0 =>
            SplitAt(fished[k], IndexOf(fished[k].item, "|"))

\* `SimpleProfile|1.0.0|a`, asked for with no category, found a profile in a
\* store that holds nothing else
C33_Witness ==
    /\ Len(defsTree) = 1 /\ Cardinality(defsTree[1].own) = 1
    /\ fished = <<[item |-> <<"SimpleProfile", "|", "1.0.0", "|", "a">>, types |-> <<>>,
                   def |-> CHOOSE d \in defsTree[1].own : TRUE]>>

\* ---- C34: the aggregate accessors report no definition twice

\* the stores of the tree that own definition d
OwnersOf(d) == {s \in 1..Len(defsTree) : d \in defsTree[s].own}

\* C34: a call of an aggregate accessor reports every definition of the tree
\* that is of its category (and, with a label, owned by a store of that label),
\* each of them once however many subtrees it is reached through, and nothing
\* else; so the size of a tree of two children with the same definitions is the
\* size of either child
C34_ReportedOnce ==
    \A i \in 1..Len(counted) :
        LET c == counted[i]
            wanted == {d \in UNION {defsTree[s].own : s \in 1..Len(defsTree)} :
                         /\ c.type = "any" \/ d.type = c.type
                         /\ c.label = ""
                              \/ \E s \in OwnersOf(d) : defsTree[s].package = c.label}
        IN /\ BagToSet(c.report) = wanted
           /\ \A d \in wanted : CopiesIn(d, c.report) = 1
           /\ (c.type = "any" /\ c.label = "" /\ Len(defsTree) = 3
                  /\ defsTree[2].own = defsTree[3].own)
                 => BagCardinality(c.report) = Cardinality(defsTree[2].own)

\* size() of a tree whose two children, of different labels, hold the same two
\* definitions
C34_Witness ==
    /\ Len(defsTree) = 3
    /\ defsTree[2].own = defsTree[3].own
    /\ Cardinality(defsTree[2].own) = 2
    /\ defsTree[3].package = "other-definitions"
    /\ \E i \in 1..Len(counted) :
          /\ counted[i].type = "any" /\ counted[i].label = ""
          /\ BagCardinality(counted[i].report) = 2

\* ------------------------------------------ properties: the refresh throttle

\* task t, for a `current` build, is over and found nothing in the cache, and no
\* answer it got stood in the way of a download: every answer was a response
\* with data, and the listing held a build of the package
NothingAgainstDownload(t) ==
    /\ CurrentTask(t) /\ Finished(tasks[t])
    /\ tasks[t].loaded = NoPackage
    /\ \A i \in 1..Len(tasks[t].answers) :
          tasks[t].answers[i].ok /\ tasks[t].answers[i].has
    /\ tasks[t].err.kind # "CurrentPackageLoadError"

\* C35: a `current` request for a package that is listed on the build server
\* and not in the cache results in a request for the build's package.tgz,
\* whether or not an earlier `current` request queried the listing within the
\* last 24 hours
C35_UncachedCurrentDownloads ==
    \A t \in TaskIds :
        NothingAgainstDownload(t) =>
            \E i \in 1..Len(tasks[t].reqs) : tasks[t].reqs[i].rt = "arraybuffer"

\* task t of the call that is over asked for the listing
AskedListing(t) ==
    CurrentTask(t) /\ tasks[t].reqs # <<>> /\ tasks[t].reqs[1].url = QasUrl

\* the listing was asked for more than 24 hours ago, or the call that is over
\* asked for it and was not answered
ThrottleOver ==
    /\ listed # <<>>
    /\ \/ now - listed[Len(listed)] > DayMs
       \/ /\ \E t \in TaskIds : AskedListing(t)
          /\ \A t \in TaskIds :
                AskedListing(t) => tasks[t].answers # <<>> /\ ~tasks[t].answers[1].ok

\* C36: a call of loadDependencies with a `current` request for a non-R5
\* package, made more than 24 hours after the listing was last asked for, or
\* after a call whose request for the listing failed, asks for the listing
C36_ThrottleExpires ==
    [][(/\ call.state # "running" /\ call'.state = "running"
        /\ ThrottleOver
        /\ \E t \in 1..Len(tasks') :
              /\ tasks'[t].op = "mergeDependency"
              /\ IsCurrentVersion(tasks'[t].version)
              /\ ~StartsWith(tasks'[t].name, R5Prefix))
          => Len(listed') > Len(listed)]_vars

\* ------------------------------------- properties: what a download leaves

\* task t downloaded and installed a copy of its package, and merged
InstalledAndMerged(t) ==
    /\ MergeTask(t) /\ tasks[t].pc = "done" /\ tasks[t].merged
    /\ tasks[t].tries # <<>> /\ tasks[t].tries[Len(tasks[t].tries)] = "ok"

\* C37: after mergeDependency has downloaded and installed a newer copy of a
\* package (one that was in the cache, or was loaded earlier in the process),
\* what it merges into the store is what the newly installed directory holds
C37_MergesInstalledCopy ==
    \A t \in TaskIds :
        InstalledAndMerged(t) => tasks[t].loaded.gen = NewGen

\* -------------------------------------------- properties: the cache roots

\* the entries of the cache directory a loadFromPath call named
RootOf(cachePath) == IF cachePath = "disk" THEN disk ELSE otherRoot

\* C38: loadFromPath(cachePath, key) reports absence when the directory
\* cachePath holds no directory matching key, and otherwise returns the
\* records of that directory, whatever was loaded before from another cache
\* directory
C38_DependsOnRootOnly ==
    \A i \in 1..Len(loads) :
        LET found == {e \in RootOf(loads[i].cachePath) :
                         ToLowerCase(e.dir) = loads[i].targetPackage}
        IN IF found = {} THEN loads[i].result = NoPackage
           ELSE \E e \in found :
                   loads[i].result = [package |-> loads[i].targetPackage, gen |-> e.gen]

\* ------------------------------------------ properties: tasks side by side

\* task u waits for the listing or the manifest, after which it reads the
\* package.json of the directory it looked for; the step taken is not its own
\* and takes that directory, as it was, out of the cache
RemovedUnderReader(u) ==
    /\ MergeTask(u) /\ tasks[u].pc \in {"qas", "manifest"}
    /\ u \in 1..Len(tasks') /\ tasks'[u] = tasks[u]
    /\ \E e \in disk : e.dir = tasks[u].loadPath /\ e \notin disk'

\* every task that succeeded holds a whole copy of its package, the one found
\* in the cache at the start or the one the servers hand out, and its store
\* took all of it
SucceededWhole ==
    \A t \in TaskIds :
        (MergeTask(t) /\ tasks[t].pc = "done") =>
            /\ tasks[t].merged
            /\ tasks[t].loaded \in {[package |-> tasks[t].full, gen |-> g] :
                                      g \in {OldGen, NewGen}}
            /\ \E i \in 1..Len(heap[tasks[t].store].own) :
                  heap[tasks[t].store].own[i] = tasks[t].loaded

C40_ResolvesToStore ==
    (BatchCall /\ call.state = "resolved") => call.result \in 1..Len(heap)

====
